---- MODULE Spec2Model ----
(***************************************************************************)
(* eznotes: the meeting status state machine (BotService, the events and   *)
(* transcript webhooks of MeetingBaas) and the live transcript merger of   *)
(* the audio WebSocket server.                                             *)
(*                                                                         *)
(* Every `await` of the source is one step: the awaited database or        *)
(* provider operation takes effect atomically, together with the           *)
(* synchronous code that follows it up to the next `await`.                *)
(*                                                                         *)
(* `published` and `response` are outputs: they hold what the last step    *)
(* handed to broadcastToMeeting and what it answered to its HTTP caller.   *)
(*                                                                         *)
(* Text is a sequence of one-character strings, " " being whitespace.      *)
(* Time offsets are counted in ticks, TicksPerSecond ticks to the second.  *)
(***************************************************************************)
EXTENDS Integers, Sequences, FiniteSets, TLC

VARIABLES
    meeting,        \* prisma.meeting: [status, startedAt, zoomMeetingId, summary] per meeting id
    transcripts,    \* prisma.transcript: fragments per meeting id, in insertion order
    participants,   \* prisma.participant: names per meeting id, in insertion order
    botIds,         \* BotService.botIds: meeting id -> bot id
    providerBots,   \* bots the MeetingBaas provider is running
    nextBot,        \* the id the provider gives to the next bot
    activeSessions, \* audio-server activeSessions: bot id -> meeting id
    startCall,      \* the startBot call in flight, per meeting id
    stopCall,       \* the stopBot call in flight, per meeting id
    procRuns,       \* the processMeeting runs in flight, per meeting id
    eventsCall,     \* the events-webhook request in flight
    transcriptCall, \* the transcript-webhook request in flight
    published,      \* output: events the last step handed to broadcastToMeeting, per meeting id
    response,       \* output: the HTTP response the last step sent
    inputs,         \* number of HTTP requests taken so far
    session,        \* merger: the Session's merge cursor
    handlers,       \* merger: Transcript event handlers in flight
    arrived,        \* merger history: the final speech events delivered, in order, each with
                    \* whether a handler was still in flight when it arrived (busy)
    streamPos       \* merger: start offset of the last final event the provider emitted (-1
                    \* before the first), the number of its other events and, after a step
                    \* that received one of these, that event (got)

VARIABLES
    sseClients,     \* audio-server sseClients: per meeting id, whether the Map has an entry and
                    \* the clients of its Set, in insertion order
    clients,        \* the SSE clients ever created: registration, what was written to each
    publog,         \* history: the calls of broadcastToMeeting, in order
    publishRaised   \* output: whether the last broadcastToMeeting call threw to its caller

VARIABLES
    channels,       \* the audio channels (WebSocket connections): state of the socket, the
                    \* metadata lookup in flight, currentSession and its resources
    registered      \* which channel's Session activeSessions holds for each bot id (0: none)

VARIABLES
    runs,           \* the periodic summarization runs in flight
    ticks,          \* number of periodic runs started so far
    actionItems,    \* prisma.actionItem: titles per meeting id, in insertion order
    summaryHistory  \* meeting.summaryHistory: the summaries appended, per meeting id

pubVars == <<sseClients, clients, publog, publishRaised>>
chanVars == <<channels, registered>>
sumVars == <<runs, ticks, actionItems, summaryHistory>>
bridgeVars == <<pubVars, chanVars, sumVars>>

smVars == <<meeting, participants, botIds, providerBots, nextBot, activeSessions,
            startCall, stopCall, procRuns, eventsCall, transcriptCall,
            published, response, inputs>>
mergeVars == <<session, handlers, arrived, streamPos>>
vars == <<smVars, transcripts, mergeVars, bridgeVars>>

----------------------------------------------------------------------------
(* Bounds *)
MaxInputs == 3      \* HTTP requests (user commands, webhooks) per behaviour
MaxBots == 1        \* bots the provider creates
MaxFrags == 2       \* fragments stored per meeting (state machine)
MaxEvents == 3      \* speech events per Session (merger)
TicksPerSecond == 2 \* resolution of start offsets
MaxClients == 2     \* SSE clients created (Subscriber Registry)
MaxPublish == 2     \* calls of broadcastToMeeting (Subscriber Registry)
MaxCalls == 2       \* calls of one client's unregister handle
MaxChannels == 2    \* audio channels opened (Audio Bridge)
MaxRuns == 2        \* periodic summarization runs started
MaxFrames == 2      \* binary audio frames received (Audio Bridge)
MaxLeaks == 1       \* Sessions of one channel replaced by a later one (Audio Bridge)

Meetings == {"m1"}
NULL == "null"
NoBot == 0
BotIdSet == 1..MaxBots
\* the meeting ids a viewer may name in /stream/:meetingId: any string, a meeting's or not
StreamIds == Meetings \cup {"m2"}
ClientIds == 1..MaxClients
ChannelIds == 1..MaxChannels
\* a bot id no meeting has, and the bot ids a metadata message may carry
UnknownBot == MaxBots + 1
AnnouncedBots == BotIdSet \cup {UnknownBot}

----------------------------------------------------------------------------
(* Text *)
Blank == " "

RECURSIVE TrimStart(_)
TrimStart(s) == IF s # <<>> /\ Head(s) = Blank THEN TrimStart(Tail(s)) ELSE s

RECURSIVE TrimEnd(_)
TrimEnd(s) == IF s # <<>> /\ s[Len(s)] = Blank THEN TrimEnd(SubSeq(s, 1, Len(s) - 1)) ELSE s

\* String.prototype.trim
Trim(s) == TrimEnd(TrimStart(s))

\* Array.prototype.join(' ') over words
RECURSIVE JoinWords(_)
JoinWords(ws) ==
    IF ws = <<>> THEN <<>>
    ELSE IF Len(ws) = 1 THEN Head(ws)
    ELSE Head(ws) \o <<Blank>> \o JoinWords(Tail(ws))

\* Math.floor of an offset given in ticks, in seconds
Floor(t) == t \div TicksPerSecond

----------------------------------------------------------------------------
(* Meeting state machine *)

Statuses == {"scheduled", "recording", "processing", "completed", "failed"}

IdleCall == [pc |-> "idle"]

StatusEvent(s) == [type |-> "status", value |-> s]
SummaryEvent(final) == [type |-> "summary", value |-> IF final THEN "final" ELSE "periodic"]

\* broadcastToMeeting(m, e) is called for each e of es, in order, and for nothing else
Publish(m, es) == published' = [x \in Meetings |-> IF x = m THEN es ELSE <<>>]
NoPublish == published' = [x \in Meetings |-> <<>>]

\* a response: the route, the HTTP status code and, for a webhook, the event it answers
NoResponse == [route |-> "none", code |-> 0, event |-> "none"]
Respond(route, code) == response' = [route |-> route, code |-> code, event |-> "none"]
RespondTo(route, code, ev) == response' = [route |-> route, code |-> code, event |-> ev]
Silent == response' = NoResponse

\* prisma.meeting.findFirst({ where: { zoomMeetingId: bot_id } })
FindByBot(b) == { m \in Meetings : meeting[m].zoomMeetingId = b }

InitSM ==
    /\ meeting = [m \in Meetings |-> [status |-> "scheduled", startedAt |-> NULL,
                                      zoomMeetingId |-> NoBot, summary |-> NULL]]
    /\ participants = [m \in Meetings |-> <<>>]
    /\ botIds = [m \in Meetings |-> NoBot]
    /\ providerBots = {}
    /\ nextBot = 1
    /\ activeSessions = [b \in BotIdSet |-> NULL]
    /\ startCall = [m \in Meetings |-> IdleCall]
    /\ stopCall = [m \in Meetings |-> IdleCall]
    /\ procRuns = [m \in Meetings |-> <<>>]
    /\ eventsCall = IdleCall
    /\ transcriptCall = IdleCall
    /\ published = [m \in Meetings |-> <<>>]
    /\ response = NoResponse
    /\ inputs = 0

\* a Session as it is stored: lastSpeaker, lastTranscript and lastTimestamp are undefined,
\* written NULL, '' and 0, which the handler's tests do not tell from undefined
\* no interim, blank or empty event was received by the last step
NoOther == [kind |-> "none", text |-> <<>>]

InitMergeIdle ==
    /\ session = [lastSpeaker |-> NULL, lastTranscript |-> <<>>, lastTimestamp |-> 0]
    /\ handlers = <<>>
    /\ arrived = <<>>
    /\ streamPos = [last |-> -1, others |-> 0, got |-> NoOther]

\* no entry of the Map sseClients, and an entry with its Set
NoEntry == [has |-> FALSE, set |-> <<>>]
Entry(cs) == [has |-> TRUE, set |-> cs]

\* a client not created yet
NewClient == [state |-> "new", meetingId |-> NULL, since |-> 0, until |-> 0,
              received |-> <<>>, dropped |-> {}, calls |-> 0]

\* sseClients = new Map(): no client is registered and nothing was broadcast
InitPubIdle ==
    /\ sseClients = [m \in StreamIds |-> NoEntry]
    /\ clients = [c \in ClientIds |-> NewClient]
    /\ publog = <<>>
    /\ publishRaised = FALSE

\* currentSession = null
NoSession == [botId |-> NoBot, meetingId |-> NULL]

\* a WebSocket connection not accepted yet
NewChannel == [ws |-> "new", acked |-> FALSE, announced |-> NoBot, pending |-> FALSE,
               session |-> NoSession, stt |-> "none", timer |-> "none",
               frames |-> 0, forwarded |-> <<>>, leaked |-> 0]

\* no audio channel is connected
InitChanIdle ==
    /\ channels = [ch \in ChannelIds |-> NewChannel]
    /\ registered = [b \in BotIdSet |-> 0]

\* no periodic run was started and no action item is stored
InitSumIdle ==
    /\ runs = <<>>
    /\ ticks = 0
    /\ actionItems = [m \in Meetings |-> <<>>]
    /\ summaryHistory = [m \in Meetings |-> <<>>]

InitBridgeIdle == InitPubIdle /\ InitChanIdle /\ InitSumIdle

Init ==
    /\ InitSM
    /\ InitMergeIdle
    /\ InitBridgeIdle
    /\ transcripts = [m \in Meetings |-> <<>>]

TakeInput == inputs < MaxInputs /\ inputs' = inputs + 1

---- (* BotService.startBot *)

\* POST start-bot: findUnique finds the meeting and createBot is requested
StartBot(m) ==
    /\ TakeInput
    /\ startCall[m].pc = "idle"
    /\ startCall' = [startCall EXCEPT ![m] = [pc |-> "createBot"]]
    /\ NoPublish /\ Silent
    /\ UNCHANGED <<meeting, transcripts, participants, botIds, providerBots, nextBot,
                   activeSessions, stopCall, procRuns, eventsCall, transcriptCall, mergeVars, bridgeVars>>

\* meetingBaasClient.createBot resolves: the bot id is put in botIds
StartCreateOk(m) ==
    /\ startCall[m].pc = "createBot"
    /\ nextBot <= MaxBots
    /\ providerBots' = providerBots \cup {nextBot}
    /\ nextBot' = nextBot + 1
    /\ botIds' = [botIds EXCEPT ![m] = nextBot]
    /\ startCall' = [startCall EXCEPT ![m] = [pc |-> "update", bot |-> nextBot]]
    /\ NoPublish /\ Silent
    /\ UNCHANGED <<meeting, transcripts, participants, activeSessions, stopCall, procRuns,
                   eventsCall, transcriptCall, inputs, mergeVars, bridgeVars>>

\* meetingBaasClient.createBot rejects: control passes to the catch block
StartCreateFail(m) ==
    /\ startCall[m].pc = "createBot"
    /\ startCall' = [startCall EXCEPT ![m] = [pc |-> "catch"]]
    /\ NoPublish /\ Silent
    /\ UNCHANGED <<meeting, transcripts, participants, botIds, providerBots, nextBot,
                   activeSessions, stopCall, procRuns, eventsCall, transcriptCall, inputs,
                   mergeVars, bridgeVars>>

\* the update to 'recording' is applied and startBot returns success
StartUpdate(m) ==
    /\ startCall[m].pc = "update"
    /\ meeting' = [meeting EXCEPT ![m].status = "recording",
                                  ![m].startedAt = "startBot",
                                  ![m].zoomMeetingId = startCall[m].bot]
    /\ startCall' = [startCall EXCEPT ![m] = IdleCall]
    /\ NoPublish /\ Respond("start-bot", 200)
    /\ UNCHANGED <<transcripts, participants, botIds, providerBots, nextBot, activeSessions,
                   stopCall, procRuns, eventsCall, transcriptCall, inputs, mergeVars, bridgeVars>>

\* StartCatch that swallows the error: 'failed' is written but startBot returns normally
StartCatch_Swallow(m) ==
    /\ startCall[m].pc = "catch"
    /\ meeting' = [meeting EXCEPT ![m].status = "failed"]
    /\ startCall' = [startCall EXCEPT ![m] = IdleCall]
    /\ NoPublish /\ Respond("start-bot", 200)
    /\ UNCHANGED <<transcripts, participants, botIds, providerBots, nextBot, activeSessions,
                   stopCall, procRuns, eventsCall, transcriptCall, inputs, mergeVars, bridgeVars>>

\* catch: the update to 'failed' is applied, the error is thrown again and the route
\* answers 500
StartCatch(m) ==
    /\ startCall[m].pc = "catch"
    /\ meeting' = [meeting EXCEPT ![m].status = "failed"]
    /\ startCall' = [startCall EXCEPT ![m] = IdleCall]
    /\ NoPublish /\ Respond("start-bot", 500)
    /\ UNCHANGED <<transcripts, participants, botIds, providerBots, nextBot, activeSessions,
                   stopCall, procRuns, eventsCall, transcriptCall, inputs, mergeVars, bridgeVars>>

---- (* BotService.stopBot *)

\* POST stop-bot: findUnique returns the meeting; with a bot id the provider is asked to
\* stop the bot, without one the update is issued at once
StopBot(m) ==
    /\ TakeInput
    /\ stopCall[m].pc = "idle"
    /\ LET botId == IF botIds[m] # NoBot THEN botIds[m] ELSE meeting[m].zoomMeetingId
       IN stopCall' = [stopCall EXCEPT ![m] =
              [pc |-> IF botId # NoBot THEN "stopBot" ELSE "update", botId |-> botId]]
    /\ NoPublish /\ Silent
    /\ UNCHANGED <<meeting, transcripts, participants, botIds, providerBots, nextBot,
                   activeSessions, startCall, procRuns, eventsCall, transcriptCall, mergeVars, bridgeVars>>

\* meetingBaasClient.stopBot resolves: the bot id is deleted from botIds
StopProviderOk(m) ==
    /\ stopCall[m].pc = "stopBot"
    /\ providerBots' = providerBots \ {stopCall[m].botId}
    /\ botIds' = [botIds EXCEPT ![m] = NoBot]
    /\ stopCall' = [stopCall EXCEPT ![m].pc = "update"]
    /\ NoPublish /\ Silent
    /\ UNCHANGED <<meeting, transcripts, participants, nextBot, activeSessions, startCall,
                   procRuns, eventsCall, transcriptCall, inputs, mergeVars, bridgeVars>>

\* StopProviderFail that writes 'processing' and starts processMeeting before it throws
StopProviderFail_StillStops(m) ==
    /\ stopCall[m].pc = "stopBot"
    /\ meeting' = [meeting EXCEPT ![m].status = "processing"]
    /\ Publish(m, <<StatusEvent("processing")>>)
    /\ procRuns' = [procRuns EXCEPT ![m] = Append(@, [pc |-> "find", empty |-> FALSE,
                                                       called |-> FALSE, finalSummary |-> NULL])]
    /\ stopCall' = [stopCall EXCEPT ![m] = IdleCall]
    /\ Respond("stop-bot", 500)
    /\ UNCHANGED <<transcripts, participants, botIds, providerBots, nextBot, activeSessions,
                   startCall, eventsCall, transcriptCall, inputs, mergeVars, bridgeVars>>

\* meetingBaasClient.stopBot rejects: stopBot throws and the route answers 500
StopProviderFail(m) ==
    /\ stopCall[m].pc = "stopBot"
    /\ stopCall' = [stopCall EXCEPT ![m] = IdleCall]
    /\ NoPublish /\ Respond("stop-bot", 500)
    /\ UNCHANGED <<meeting, transcripts, participants, botIds, providerBots, nextBot,
                   activeSessions, startCall, procRuns, eventsCall, transcriptCall, inputs,
                   mergeVars, bridgeVars>>

NewProcRun == [pc |-> "find", empty |-> FALSE, called |-> FALSE, finalSummary |-> NULL]

\* the update to 'processing' is applied, the status event is broadcast, processMeeting is
\* started without being awaited, and stopBot returns success
StopUpdate(m) ==
    /\ stopCall[m].pc = "update"
    /\ meeting' = [meeting EXCEPT ![m].status = "processing"]
    /\ Publish(m, <<StatusEvent("processing")>>)
    /\ procRuns' = [procRuns EXCEPT ![m] = Append(@, NewProcRun)]
    /\ stopCall' = [stopCall EXCEPT ![m] = IdleCall]
    /\ Respond("stop-bot", 200)
    /\ UNCHANGED <<transcripts, participants, botIds, providerBots, nextBot, activeSessions,
                   startCall, eventsCall, transcriptCall, inputs, mergeVars, bridgeVars>>

---- (* BotService.processMeeting *)

RemoveAt(s, i) == SubSeq(s, 1, i - 1) \o SubSeq(s, i + 1, Len(s))

\* ProcFind without the check of transcripts.length: the summary is always requested
ProcFind_NoEmptyCheck(m, i) ==
    /\ i \in DOMAIN procRuns[m]
    /\ procRuns[m][i].pc = "find"
    /\ procRuns' = [procRuns EXCEPT ![m][i] =
          [@ EXCEPT !.empty = (transcripts[m] = <<>>), !.pc = "summary", !.called = TRUE]]
    /\ NoPublish /\ Silent
    /\ UNCHANGED <<meeting, transcripts, participants, botIds, providerBots, nextBot,
                   activeSessions, startCall, stopCall, eventsCall, transcriptCall, inputs,
                   mergeVars, bridgeVars>>

\* findUnique with the transcripts: an empty transcript leads to the plain update,
\* a non-empty one to the call of generateLiveSummary
ProcFind(m, i) ==
    /\ i \in DOMAIN procRuns[m]
    /\ procRuns[m][i].pc = "find"
    /\ procRuns' = [procRuns EXCEPT ![m][i] =
          [@ EXCEPT !.empty = (transcripts[m] = <<>>),
                    !.pc = IF transcripts[m] = <<>> THEN "updateEmpty" ELSE "summary",
                    !.called = (transcripts[m] # <<>>)]]
    /\ NoPublish /\ Silent
    /\ UNCHANGED <<meeting, transcripts, participants, botIds, providerBots, nextBot,
                   activeSessions, startCall, stopCall, eventsCall, transcriptCall, inputs,
                   mergeVars, bridgeVars>>

\* empty transcript: status 'completed' is written and the run returns
ProcUpdateEmpty(m, i) ==
    /\ i \in DOMAIN procRuns[m]
    /\ procRuns[m][i].pc = "updateEmpty"
    /\ meeting' = [meeting EXCEPT ![m].status = "completed"]
    /\ procRuns' = [procRuns EXCEPT ![m] = RemoveAt(@, i)]
    /\ NoPublish /\ Silent
    /\ UNCHANGED <<transcripts, participants, botIds, providerBots, nextBot, activeSessions,
                   startCall, stopCall, eventsCall, transcriptCall, inputs, mergeVars, bridgeVars>>

\* ProcSummaryOk that broadcasts the summary without isFinal
ProcSummaryOk_NotFinal(m, i) ==
    /\ i \in DOMAIN procRuns[m]
    /\ procRuns[m][i].pc = "summary"
    /\ Publish(m, <<SummaryEvent(FALSE)>>)
    /\ procRuns' = [procRuns EXCEPT ![m][i] = [@ EXCEPT !.pc = "update", !.finalSummary = "final"]]
    /\ Silent
    /\ UNCHANGED <<meeting, transcripts, participants, botIds, providerBots, nextBot,
                   activeSessions, startCall, stopCall, eventsCall, transcriptCall, inputs,
                   mergeVars, bridgeVars>>

\* generateLiveSummary resolves: the summary is broadcast with isFinal
ProcSummaryOk(m, i) ==
    /\ i \in DOMAIN procRuns[m]
    /\ procRuns[m][i].pc = "summary"
    /\ Publish(m, <<SummaryEvent(TRUE)>>)
    /\ procRuns' = [procRuns EXCEPT ![m][i] = [@ EXCEPT !.pc = "update", !.finalSummary = "final"]]
    /\ Silent
    /\ UNCHANGED <<meeting, transcripts, participants, botIds, providerBots, nextBot,
                   activeSessions, startCall, stopCall, eventsCall, transcriptCall, inputs,
                   mergeVars, bridgeVars>>

\* generateLiveSummary rejects: the inner catch logs it and finalSummary stays null
ProcSummaryFail(m, i) ==
    /\ i \in DOMAIN procRuns[m]
    /\ procRuns[m][i].pc = "summary"
    /\ procRuns' = [procRuns EXCEPT ![m][i] = [@ EXCEPT !.pc = "update"]]
    /\ NoPublish /\ Silent
    /\ UNCHANGED <<meeting, transcripts, participants, botIds, providerBots, nextBot,
                   activeSessions, startCall, stopCall, eventsCall, transcriptCall, inputs,
                   mergeVars, bridgeVars>>

\* status 'completed' and the summary are written, the status event is broadcast
ProcUpdate(m, i) ==
    /\ i \in DOMAIN procRuns[m]
    /\ procRuns[m][i].pc = "update"
    /\ meeting' = [meeting EXCEPT ![m].status = "completed",
                                  ![m].summary = procRuns[m][i].finalSummary]
    /\ Publish(m, <<StatusEvent("completed")>>)
    /\ procRuns' = [procRuns EXCEPT ![m] = RemoveAt(@, i)]
    /\ Silent
    /\ UNCHANGED <<transcripts, participants, botIds, providerBots, nextBot, activeSessions,
                   startCall, stopCall, eventsCall, transcriptCall, inputs, mergeVars, bridgeVars>>

---- (* POST /api/webhooks/meetingbaas/events *)

EventKinds == {"meeting.started", "bot.joined", "meeting.completed", "meeting.failed",
               "bot.left", "bot.error", "recording.started", "recording.stopped"}

\* the status each case of the switch writes
EventStatus(ev) ==
    CASE ev \in {"meeting.started", "bot.joined"} -> "recording"
      [] ev \in {"meeting.completed", "bot.left"} -> "processing"
      [] ev \in {"meeting.failed", "bot.error"} -> "failed"

\* EventsWebhook that asks the provider to stop the bot of an event it answers with 404
EventsWebhook_StopsAnyBot(b, ev) ==
    /\ TakeInput
    /\ eventsCall.pc = "idle"
    /\ IF FindByBot(b) = {}
       THEN /\ RespondTo("events", 404, ev)
            /\ providerBots' = providerBots \ {b}
            /\ UNCHANGED eventsCall
       ELSE LET m == CHOOSE x \in FindByBot(b) : TRUE
            IN IF ev \in {"recording.started", "recording.stopped"}
               THEN /\ RespondTo("events", 200, ev)
                    /\ UNCHANGED <<eventsCall, providerBots>>
               ELSE /\ eventsCall' = [pc |-> IF ev = "meeting.completed" THEN "stopBot" ELSE "update",
                                      event |-> ev, bot_id |-> b, id |-> m,
                                      startedAt |-> meeting[m].startedAt, stop |-> "none"]
                    /\ Silent
                    /\ UNCHANGED providerBots
    /\ NoPublish
    /\ UNCHANGED <<meeting, transcripts, participants, botIds, nextBot,
                   activeSessions, startCall, stopCall, procRuns, transcriptCall, mergeVars, bridgeVars>>

\* the request arrives and findFirst by bot id is answered: 404 without a meeting,
\* otherwise the case of the event is entered
EventsWebhook(b, ev) ==
    /\ TakeInput
    /\ eventsCall.pc = "idle"
    /\ IF FindByBot(b) = {}
       THEN /\ RespondTo("events", 404, ev)
            /\ UNCHANGED eventsCall
       ELSE LET m == CHOOSE x \in FindByBot(b) : TRUE
            IN IF ev \in {"recording.started", "recording.stopped"}
               THEN /\ RespondTo("events", 200, ev)
                    /\ UNCHANGED eventsCall
               ELSE /\ eventsCall' = [pc |-> IF ev = "meeting.completed" THEN "stopBot" ELSE "update",
                                      event |-> ev, bot_id |-> b, id |-> m,
                                      startedAt |-> meeting[m].startedAt, stop |-> "none"]
                    /\ Silent
    /\ NoPublish
    /\ UNCHANGED <<meeting, transcripts, participants, botIds, providerBots, nextBot,
                   activeSessions, startCall, stopCall, procRuns, transcriptCall, mergeVars, bridgeVars>>

\* EventsStop without the inner try/catch: a rejected stopBot reaches the outer catch,
\* which answers 500 without the update
EventsStop_Uncaught(ok) ==
    /\ eventsCall.pc = "stopBot"
    /\ providerBots' = IF ok THEN providerBots \ {eventsCall.bot_id} ELSE providerBots
    /\ eventsCall' = IF ok THEN [eventsCall EXCEPT !.pc = "update", !.stop = "ok"] ELSE IdleCall
    /\ IF ok THEN Silent ELSE RespondTo("events", 500, eventsCall.event)
    /\ NoPublish
    /\ UNCHANGED <<meeting, transcripts, participants, botIds, nextBot, activeSessions,
                   startCall, stopCall, procRuns, transcriptCall, inputs, mergeVars, bridgeVars>>

\* case 'meeting.completed': meetingBaasClient.stopBot resolves, or rejects and is logged
EventsStop(ok) ==
    /\ eventsCall.pc = "stopBot"
    /\ providerBots' = IF ok THEN providerBots \ {eventsCall.bot_id} ELSE providerBots
    /\ eventsCall' = [eventsCall EXCEPT !.pc = "update",
                                        !.stop = IF ok THEN "ok" ELSE "failed"]
    /\ NoPublish /\ Silent
    /\ UNCHANGED <<meeting, transcripts, participants, botIds, nextBot, activeSessions,
                   startCall, stopCall, procRuns, transcriptCall, inputs, mergeVars, bridgeVars>>

\* EventsUpdate that always writes the webhook's timestamp as startedAt
EventsUpdate_ResetsStart ==
    /\ eventsCall.pc = "update"
    /\ LET m == eventsCall.id
           s == EventStatus(eventsCall.event)
       IN meeting' = [meeting EXCEPT
              ![m].status = s,
              ![m].startedAt = IF s = "recording"
                               THEN "webhook"
                               ELSE @]
    /\ eventsCall' = IdleCall
    /\ NoPublish /\ RespondTo("events", 200, eventsCall.event)
    /\ UNCHANGED <<transcripts, participants, botIds, providerBots, nextBot, activeSessions,
                   startCall, stopCall, procRuns, transcriptCall, inputs, mergeVars, bridgeVars>>

\* the update of the case is applied and the webhook answers success
EventsUpdate ==
    /\ eventsCall.pc = "update"
    /\ LET m == eventsCall.id
           s == EventStatus(eventsCall.event)
       IN meeting' = [meeting EXCEPT
              ![m].status = s,
              ![m].startedAt = IF s = "recording"
                               THEN IF eventsCall.startedAt # NULL
                                    THEN eventsCall.startedAt ELSE "webhook"
                               ELSE @]
    /\ eventsCall' = IdleCall
    /\ NoPublish /\ RespondTo("events", 200, eventsCall.event)
    /\ UNCHANGED <<transcripts, participants, botIds, providerBots, nextBot, activeSessions,
                   startCall, stopCall, procRuns, transcriptCall, inputs, mergeVars, bridgeVars>>

---- (* POST /api/webhooks/meetingbaas (transcript / completion) *)

TranscriptEventKinds == {"complete", "failed", "bot.status_change"}

SpeakerLabel(i) ==
    CASE i = 0 -> "Speaker 0"
      [] i = 1 -> "Speaker 1"
      [] OTHER -> "Unknown"

\* payloads of the 'complete' event: data.speakers and data.transcript
SpeakerLists == {<<>>, <<"Alice">>}
SegmentLists ==
    {<<>>,
     <<[speaker |-> "Alice", words |-> <<<<Blank>>>>, start_time |-> 1],
       [speaker |-> "Alice", words |-> <<<<"h">>, <<"i">>>>, start_time |-> 3]>>}

\* text.trim() of a segment's words joined by spaces
SegmentText(segment) == Trim(JoinWords(segment.words))

\* the segments of a payload that have text
RECURSIVE WithText(_)
WithText(segments) ==
    IF segments = <<>> THEN <<>>
    ELSE (IF SegmentText(Head(segments)) # <<>> THEN <<Head(segments)>> ELSE <<>>)
             \o WithText(Tail(segments))

\* the request arrives and findFirst by bot id is answered
TranscriptWebhook(b, ev, speakers, segments) ==
    /\ TakeInput
    /\ \A m \in FindByBot(b) : Len(transcripts[m]) + Len(WithText(segments)) <= MaxFrags
    /\ transcriptCall.pc = "idle"
    /\ IF FindByBot(b) = {}
       THEN /\ RespondTo("transcript", 404, ev)
            /\ UNCHANGED transcriptCall
       ELSE LET m == CHOOSE x \in FindByBot(b) : TRUE
            IN IF ev = "bot.status_change"
               THEN /\ RespondTo("transcript", 200, ev)
                    /\ UNCHANGED transcriptCall
               ELSE /\ transcriptCall' =
                           [pc |-> IF ev = "complete" THEN "stopBot" ELSE "update",
                            event |-> ev, bot_id |-> b, id |-> m,
                            speakers |-> IF ev = "complete" THEN speakers ELSE <<>>,
                            segments |-> IF ev = "complete" THEN segments ELSE <<>>,
                            i |-> 1]
                    /\ Silent
    /\ NoPublish
    /\ UNCHANGED <<meeting, transcripts, participants, botIds, providerBots, nextBot,
                   activeSessions, startCall, stopCall, procRuns, eventsCall, mergeVars, bridgeVars>>

\* case 'complete': meetingBaasClient.stopBot resolves, or rejects and is logged; the
\* payload is read and the first loop that has something to do is entered
TranscriptStop(ok) ==
    /\ transcriptCall.pc = "stopBot"
    /\ providerBots' = IF ok THEN providerBots \ {transcriptCall.bot_id} ELSE providerBots
    /\ transcriptCall' = [transcriptCall EXCEPT !.pc =
           IF transcriptCall.speakers # <<>> THEN "speakers"
           ELSE IF transcriptCall.segments # <<>> THEN "segments" ELSE "update"]
    /\ NoPublish /\ Silent
    /\ UNCHANGED <<meeting, transcripts, participants, botIds, nextBot, activeSessions,
                   startCall, stopCall, procRuns, eventsCall, inputs, mergeVars, bridgeVars>>

\* prisma.transcript.updateMany: fragments labelled `from` get the speaker `to`
RenameSpeaker(frags, from, to) ==
    [k \in DOMAIN frags |-> IF frags[k].speaker = from
                            THEN [frags[k] EXCEPT !.speaker = to] ELSE frags[k]]

\* one turn of the speakers loop, its store operations taken together: the participant
\* is saved unless present and the fragments labelled `Speaker i` are renamed
TranscriptSpeaker ==
    /\ transcriptCall.pc = "speakers"
    /\ LET c == transcriptCall
           m == c.id
           speakerName == c.speakers[c.i]
           present == \E k \in DOMAIN participants[m] : participants[m][k] = speakerName
       IN /\ participants' = [participants EXCEPT ![m] =
                                 IF present THEN @ ELSE Append(@, speakerName)]
          /\ transcripts' = [transcripts EXCEPT ![m] =
                                 RenameSpeaker(@, SpeakerLabel(c.i - 1), speakerName)]
          /\ transcriptCall' =
                 IF c.i < Len(c.speakers) THEN [c EXCEPT !.i = c.i + 1]
                 ELSE [c EXCEPT !.i = 1,
                                !.pc = IF c.segments # <<>> THEN "segments" ELSE "update"]
    /\ NoPublish /\ Silent
    /\ UNCHANGED <<meeting, botIds, providerBots, nextBot, activeSessions, startCall,
                   stopCall, procRuns, eventsCall, inputs, mergeVars, bridgeVars>>

\* TranscriptSegment that stores the segments without text as well
TranscriptSegment_KeepsBlank ==
    /\ transcriptCall.pc = "segments"
    /\ LET c == transcriptCall
           m == c.id
           segment == c.segments[c.i]
           text == JoinWords(segment.words)
       IN /\ transcripts' = [transcripts EXCEPT ![m] =
                 Append(@, [text |-> Trim(text), speaker |-> segment.speaker,
                            timestamp |-> Floor(segment.start_time)])]
          /\ transcriptCall' =
                 IF c.i < Len(c.segments) THEN [c EXCEPT !.i = c.i + 1]
                 ELSE [c EXCEPT !.i = 1, !.pc = "update"]
    /\ NoPublish /\ Silent
    /\ UNCHANGED <<meeting, participants, botIds, providerBots, nextBot, activeSessions,
                   startCall, stopCall, procRuns, eventsCall, inputs, mergeVars, bridgeVars>>

\* one turn of the segments loop: a segment with non-blank text is stored
TranscriptSegment ==
    /\ transcriptCall.pc = "segments"
    /\ LET c == transcriptCall
           m == c.id
           segment == c.segments[c.i]
           text == JoinWords(segment.words)
       IN /\ transcripts' = [transcripts EXCEPT ![m] =
                 IF Trim(text) # <<>>
                 THEN Append(@, [text |-> Trim(text), speaker |-> segment.speaker,
                                 timestamp |-> Floor(segment.start_time)])
                 ELSE @]
          /\ transcriptCall' =
                 IF c.i < Len(c.segments) THEN [c EXCEPT !.i = c.i + 1]
                 ELSE [c EXCEPT !.i = 1, !.pc = "update"]
    /\ NoPublish /\ Silent
    /\ UNCHANGED <<meeting, participants, botIds, providerBots, nextBot, activeSessions,
                   startCall, stopCall, procRuns, eventsCall, inputs, mergeVars, bridgeVars>>

\* the meeting is written 'completed' (case 'complete') or 'failed' (case 'failed')
TranscriptUpdate ==
    /\ transcriptCall.pc = "update"
    /\ LET m == transcriptCall.id
           s == IF transcriptCall.event = "complete" THEN "completed" ELSE "failed"
       IN meeting' = [meeting EXCEPT ![m].status = s]
    /\ transcriptCall' = IdleCall
    /\ NoPublish /\ RespondTo("transcript", 200, transcriptCall.event)
    /\ UNCHANGED <<transcripts, participants, botIds, providerBots, nextBot, activeSessions,
                   startCall, stopCall, procRuns, eventsCall, inputs, mergeVars, bridgeVars>>

---- (* the audio channel, as far as the state machine sees it *)

\* the metadata message of an audio channel resolves bot id b to a meeting and the
\* Session is stored in activeSessions
ChannelOpen(b) ==
    /\ FindByBot(b) # {}
    /\ activeSessions[b] = NULL
    /\ activeSessions' = [activeSessions EXCEPT ![b] = CHOOSE x \in FindByBot(b) : TRUE]
    /\ NoPublish /\ Silent
    /\ UNCHANGED <<meeting, transcripts, participants, botIds, providerBots, nextBot,
                   startCall, stopCall, procRuns, eventsCall, transcriptCall, inputs,
                   mergeVars, bridgeVars>>

\* ws.on('close'): the Session is deleted from activeSessions
ChannelClose(b) ==
    /\ activeSessions[b] # NULL
    /\ activeSessions' = [activeSessions EXCEPT ![b] = NULL]
    /\ NoPublish /\ Silent
    /\ UNCHANGED <<meeting, transcripts, participants, botIds, providerBots, nextBot,
                   startCall, stopCall, procRuns, eventsCall, transcriptCall, inputs,
                   mergeVars, bridgeVars>>

\* a final speech event of a live Session stores a new fragment for its meeting
LiveFragment(b) ==
    /\ activeSessions[b] # NULL
    /\ Len(transcripts[activeSessions[b]]) < MaxFrags
    /\ transcripts' = [transcripts EXCEPT ![activeSessions[b]] =
           Append(@, [text |-> <<"a">>, speaker |-> SpeakerLabel(0), timestamp |-> Floor(3)])]
    /\ NoPublish /\ Silent
    /\ UNCHANGED <<meeting, participants, botIds, providerBots, nextBot, activeSessions,
                   startCall, stopCall, procRuns, eventsCall, transcriptCall, inputs,
                   mergeVars, bridgeVars>>

----------------------------------------------------------------------------
NextSM ==
    \/ \E m \in Meetings : StartBot(m)
    \/ \E m \in Meetings : StartCreateOk(m)
    \/ \E m \in Meetings : StartCreateFail(m)
    \/ \E m \in Meetings : StartUpdate(m)
    \/ \E m \in Meetings : StartCatch(m)
    \/ \E m \in Meetings : StopBot(m)
    \/ \E m \in Meetings : StopProviderOk(m)
    \/ \E m \in Meetings : StopProviderFail(m)
    \/ \E m \in Meetings : StopUpdate(m)
    \/ \E m \in Meetings : \E i \in 1..MaxInputs + 1 : ProcFind(m, i)
    \/ \E m \in Meetings : \E i \in 1..MaxInputs + 1 : ProcUpdateEmpty(m, i)
    \/ \E m \in Meetings : \E i \in 1..MaxInputs + 1 : ProcSummaryOk(m, i)
    \/ \E m \in Meetings : \E i \in 1..MaxInputs + 1 : ProcSummaryFail(m, i)
    \/ \E m \in Meetings : \E i \in 1..MaxInputs + 1 : ProcUpdate(m, i)
    \/ \E b \in BotIdSet, ev \in EventKinds : EventsWebhook(b, ev)
    \/ \E ok \in BOOLEAN : EventsStop(ok)
    \/ EventsUpdate
    \/ \E b \in BotIdSet, ev \in TranscriptEventKinds, sp \in SpeakerLists, sg \in SegmentLists :
          TranscriptWebhook(b, ev, sp, sg)
    \/ \E ok \in BOOLEAN : TranscriptStop(ok)
    \/ TranscriptSpeaker
    \/ TranscriptSegment
    \/ TranscriptUpdate
    \/ \E b \in BotIdSet : ChannelOpen(b)
    \/ \E b \in BotIdSet : ChannelClose(b)
    \/ \E b \in BotIdSet : LiveFragment(b)

Spec == Init /\ [][NextSM]_vars

----------------------------------------------------------------------------
(* The Transcript event handler of a Session (live transcript merger) *)

MergeWindow == 5    \* seconds
WallClock == 1000   \* Date.now() / 1000 in ticks: later than every start offset

\* the meeting of the Session and its bot
SessionMeeting == CHOOSE m \in Meetings : TRUE
SessionBot == CHOOSE b \in BotIdSet : TRUE

\* a Session is live: the bot of the meeting was started and its audio channel resolved
InitMerge ==
    /\ meeting = [m \in Meetings |-> [status |-> "recording", startedAt |-> "startBot",
                                      zoomMeetingId |-> SessionBot, summary |-> NULL]]
    /\ participants = [m \in Meetings |-> <<>>]
    /\ botIds = [m \in Meetings |-> SessionBot]
    /\ providerBots = {SessionBot}
    /\ nextBot = SessionBot + 1
    /\ activeSessions = [b \in BotIdSet |-> IF b = SessionBot THEN SessionMeeting ELSE NULL]
    /\ startCall = [m \in Meetings |-> IdleCall]
    /\ stopCall = [m \in Meetings |-> IdleCall]
    /\ procRuns = [m \in Meetings |-> <<>>]
    /\ eventsCall = IdleCall
    /\ transcriptCall = IdleCall
    /\ published = [m \in Meetings |-> <<>>]
    /\ response = NoResponse
    /\ inputs = 2
    /\ InitMergeIdle
    /\ InitBridgeIdle
    /\ transcripts = [m \in Meetings |-> <<>>]

\* what the speech-to-text provider sends
SpeakerIds == {0, 1}
Texts == {<<"a">>, <<"b", Blank>>}
FirstOffsets == {0, 1}
Deltas == {MergeWindow * TicksPerSecond - 1, MergeWindow * TicksPerSecond,
           MergeWindow * TicksPerSecond + 1}

\* interim events and blank final events: their texts and their speaker
PreviewTexts == {<<"a">>, <<Blank>>}
PreviewSpeaker == CHOOSE sp \in SpeakerIds : TRUE

\* start offsets the next event may carry: they increase from one final event to the next
NextOffsets ==
    IF streamPos.last = -1 THEN FirstOffsets ELSE {streamPos.last + d : d \in Deltas}

smFrame == <<meeting, participants, botIds, providerBots, nextBot, activeSessions,
             startCall, stopCall, procRuns, eventsCall, transcriptCall, response, inputs>>

TranscriptEvent(d) ==
    [type |-> "transcript", text |-> d.text, speaker |-> d.speaker,
     timestamp |-> d.timestamp, isFinal |-> d.isFinal]

\* transcriptData of an event: words[0].start, or the wall clock when that is 0
TranscriptData(text, speakerId, start, isFinal) ==
    [text |-> text, speaker |-> SpeakerLabel(speakerId),
     timestamp |-> IF start # 0 THEN start ELSE WallClock, isFinal |-> isFinal]

\* ShouldMerge that does not compare the speakers
ShouldMerge_AnySpeaker(d) ==
    /\ session.lastTimestamp # 0
    /\ d.timestamp - session.lastTimestamp < MergeWindow * TicksPerSecond
    /\ session.lastTranscript # <<>>

\* the decision between merge and new fragment, taken on the cursor when the event arrives
ShouldMerge(d) ==
    LET withinMergeWindow ==
            IF session.lastTimestamp # 0
            THEN d.timestamp - session.lastTimestamp < MergeWindow * TicksPerSecond
            ELSE FALSE
        sameSpeaker == session.lastSpeaker = d.speaker
    IN sameSpeaker /\ withinMergeWindow /\ session.lastTranscript # <<>>

\* the events so far number fewer than MaxEvents
MoreEvents == Len(arrived) + streamPos.others < MaxEvents

\* a final event with non-blank text arrives: the handler decides and awaits the store
FinalEvent(text, speakerId, start) ==
    /\ MoreEvents
    /\ LET d == TranscriptData(text, speakerId, start, TRUE)
       IN /\ handlers' = Append(handlers, [pc |-> IF ShouldMerge(d) THEN "findFirst" ELSE "create",
                                           data |-> d, id |-> 0, found |-> <<>>])
          /\ arrived' = Append(arrived, [text |-> text, speaker |-> d.speaker, start |-> start,
                                         busy |-> handlers # <<>>])
    /\ streamPos' = [streamPos EXCEPT !.last = start, !.got = NoOther]
    /\ NoPublish
    /\ UNCHANGED <<smFrame, bridgeVars, transcripts, session>>

\* an event that is not a final event with text, as the step that receives it records it
OtherEvent(text, isFinal) == [kind |-> IF isFinal THEN "final" ELSE "interim", text |-> text]

\* PreviewEvent that sets the merge cursor from the event
PreviewEvent_MovesCursor(text, speakerId, start, isFinal) ==
    /\ MoreEvents
    /\ isFinal => Trim(text) = <<>>
    /\ Publish(SessionMeeting, <<TranscriptEvent(TranscriptData(text, speakerId, start, isFinal))>>)
    /\ session' = [lastSpeaker |-> SpeakerLabel(speakerId), lastTranscript |-> text,
                   lastTimestamp |-> start]
    /\ streamPos' = [streamPos EXCEPT !.others = @ + 1, !.got = OtherEvent(text, isFinal)]
    /\ UNCHANGED <<smFrame, bridgeVars, transcripts, handlers, arrived>>

\* an interim event, or a final event with blank text, arrives: it is only broadcast
PreviewEvent(text, speakerId, start, isFinal) ==
    /\ MoreEvents
    /\ isFinal => Trim(text) = <<>>
    /\ Publish(SessionMeeting, <<TranscriptEvent(TranscriptData(text, speakerId, start, isFinal))>>)
    /\ streamPos' = [streamPos EXCEPT !.others = @ + 1, !.got = OtherEvent(text, isFinal)]
    /\ UNCHANGED <<smFrame, bridgeVars, transcripts, session, handlers, arrived>>

\* an event with an empty transcript arrives, interim or final: the handler does nothing
EmptyEvent(isFinal) ==
    /\ MoreEvents
    /\ streamPos' = [streamPos EXCEPT !.others = @ + 1, !.got = OtherEvent(<<>>, isFinal)]
    /\ NoPublish
    /\ UNCHANGED <<smFrame, bridgeVars, transcripts, session, handlers, arrived>>

\* the end of a handler: the cursor is set from the event and the event is broadcast
FinishHandler(i) ==
    LET d == handlers[i].data
    IN /\ session' = [lastSpeaker |-> d.speaker, lastTranscript |-> d.text,
                      lastTimestamp |-> d.timestamp]
       /\ Publish(SessionMeeting, <<TranscriptEvent(d)>>)
       /\ handlers' = RemoveAt(handlers, i)
       /\ streamPos' = [streamPos EXCEPT !.got = NoOther]

\* positions of the fragments findFirst may return: speaker as given, latest timestamp
LatestOf(frags, speaker) ==
    {k \in DOMAIN frags :
        /\ frags[k].speaker = speaker
        /\ \A j \in DOMAIN frags : frags[j].speaker = speaker => frags[j].timestamp <= frags[k].timestamp}

\* merge branch: findFirst is answered; without a fragment the handler ends at once
HandlerFindFirst(i) ==
    /\ i \in DOMAIN handlers
    /\ handlers[i].pc = "findFirst"
    /\ LET cands == LatestOf(transcripts[SessionMeeting], handlers[i].data.speaker)
       IN IF cands = {}
          THEN FinishHandler(i)
          ELSE /\ \E k \in cands :
                    handlers' = [handlers EXCEPT ![i] =
                        [@ EXCEPT !.pc = "update", !.id = k,
                                  !.found = transcripts[SessionMeeting][k].text]]
               /\ NoPublish
               /\ streamPos' = [streamPos EXCEPT !.got = NoOther]
               /\ UNCHANGED session
    /\ UNCHANGED <<smFrame, bridgeVars, transcripts, arrived>>

\* HandlerUpdate that also moves the fragment to the time of the event
HandlerUpdate_Restamps(i) ==
    /\ i \in DOMAIN handlers
    /\ handlers[i].pc = "update"
    /\ transcripts' = [transcripts EXCEPT ![SessionMeeting][handlers[i].id] =
                          [@ EXCEPT !.text = handlers[i].found \o <<Blank>> \o Trim(handlers[i].data.text),
                                    !.timestamp = Floor(handlers[i].data.timestamp)]]
    /\ FinishHandler(i)
    /\ UNCHANGED <<smFrame, bridgeVars, arrived>>

\* merge branch: the fragment read gets its text followed by a space and the trimmed text
HandlerUpdate(i) ==
    /\ i \in DOMAIN handlers
    /\ handlers[i].pc = "update"
    /\ transcripts' = [transcripts EXCEPT ![SessionMeeting][handlers[i].id].text =
                          handlers[i].found \o <<Blank>> \o Trim(handlers[i].data.text)]
    /\ FinishHandler(i)
    /\ UNCHANGED <<smFrame, bridgeVars, arrived>>

\* other branch: a new fragment is created
HandlerCreate(i) ==
    /\ i \in DOMAIN handlers
    /\ handlers[i].pc = "create"
    /\ transcripts' = [transcripts EXCEPT ![SessionMeeting] =
           Append(@, [text |-> Trim(handlers[i].data.text), speaker |-> handlers[i].data.speaker,
                      timestamp |-> Floor(handlers[i].data.timestamp)])]
    /\ FinishHandler(i)
    /\ UNCHANGED <<smFrame, bridgeVars, arrived>>

NextMerge ==
    \/ \E t \in Texts, sp \in SpeakerIds, st \in NextOffsets : FinalEvent(t, sp, st)
    \/ \E t \in PreviewTexts, f \in BOOLEAN :
          PreviewEvent(t, PreviewSpeaker, streamPos.last + 1, f)
    \/ \E f \in BOOLEAN : EmptyEvent(f)
    \/ \E i \in 1..MaxEvents : HandlerFindFirst(i)
    \/ \E i \in 1..MaxEvents : HandlerUpdate(i)
    \/ \E i \in 1..MaxEvents : HandlerCreate(i)

SpecMerge == InitMerge /\ [][NextMerge]_vars

\* the merger of a Session whose meeting receives the 'complete' webhook of the provider:
\* the webhook names the participant of speaker 0 and the final events are of speaker 0,
\* each less than the merge window after the one before
RenameSpeakers == <<"Alice">>
RenameOffset ==
    IF streamPos.last = -1 THEN 1 ELSE streamPos.last + MergeWindow * TicksPerSecond - 1

NextRename ==
    \/ \E t \in Texts : FinalEvent(t, 0, RenameOffset)
    \/ \E i \in 1..MaxEvents : HandlerFindFirst(i)
    \/ \E i \in 1..MaxEvents : HandlerUpdate(i)
    \/ \E i \in 1..MaxEvents : HandlerCreate(i)
    \/ TranscriptWebhook(SessionBot, "complete", RenameSpeakers, <<>>)
    \/ \E ok \in BOOLEAN : TranscriptStop(ok)
    \/ TranscriptSpeaker
    \/ TranscriptUpdate

SpecRename == InitMerge /\ [][NextRename]_vars

----------------------------------------------------------------------------
(* Subscriber Registry: registerSSEClient, broadcastTranscript, the SSE endpoint *)

ConnectedEvent == [type |-> "connected", value |-> "connected"]
\* the events a user stop and its final processing broadcast, in their order
StopEvents == <<StatusEvent("processing"), SummaryEvent(TRUE), StatusEvent("completed")>>
\* the event of the next call of broadcastToMeeting
NextEvent == StopEvents[(Len(publog) % Len(StopEvents)) + 1]

RECURSIVE Remove(_, _)
\* Set.prototype.delete on a Set kept in insertion order
Remove(cs, c) ==
    IF cs = <<>> THEN <<>>
    ELSE IF Head(cs) = c THEN Tail(cs) ELSE <<Head(cs)>> \o Remove(Tail(cs), c)

\* GET /stream/:meetingId: the connected message is written, then registerSSEClient adds
\* the client to the meeting's Set, creating the entry if there is none
Subscribe(c, m) ==
    /\ clients[c].state = "new"
    /\ \A d \in ClientIds : d < c => clients[d].state # "new"
    /\ sseClients' = [sseClients EXCEPT ![m] = Entry(Append(@.set, c))]
    /\ clients' = [clients EXCEPT ![c] =
           [@ EXCEPT !.state = "live", !.meetingId = m, !.since = Len(publog),
                     !.received = <<ConnectedEvent>>]]
    /\ NoPublish
    /\ UNCHANGED <<smFrame, transcripts, mergeVars, chanVars, sumVars, publog, publishRaised>>

\* Unsubscribe that leaves the entry of an emptied Set in the Map
Unsubscribe_KeepEntry(c) ==
    /\ clients[c].state \in {"live", "gone"}
    /\ clients[c].calls < MaxCalls
    /\ LET m == clients[c].meetingId
       IN sseClients' = [sseClients EXCEPT ![m] =
              IF @.has THEN Entry(Remove(@.set, c)) ELSE @]
    /\ clients' = [clients EXCEPT ![c] =
           [@ EXCEPT !.state = "gone", !.calls = @ + 1,
                     !.until = IF clients[c].state = "live" THEN Len(publog) ELSE @]]
    /\ NoPublish
    /\ UNCHANGED <<smFrame, transcripts, mergeVars, chanVars, sumVars, publog, publishRaised>>

\* the handle registerSSEClient returned is called (req 'close', or again): the client is
\* deleted from the Set if the entry exists, and the entry is deleted once the Set is empty
Unsubscribe(c) ==
    /\ clients[c].state \in {"live", "gone"}
    /\ clients[c].calls < MaxCalls
    /\ LET m == clients[c].meetingId
           left == Remove(sseClients[m].set, c)
       IN sseClients' = [sseClients EXCEPT ![m] =
              IF ~@.has THEN @ ELSE IF left = <<>> THEN NoEntry ELSE Entry(left)]
    /\ clients' = [clients EXCEPT ![c] =
           [@ EXCEPT !.state = "gone", !.calls = @ + 1,
                     !.until = IF clients[c].state = "live" THEN Len(publog) ELSE @]]
    /\ NoPublish
    /\ UNCHANGED <<smFrame, transcripts, mergeVars, chanVars, sumVars, publog, publishRaised>>

RECURSIVE Concat(_, _)
\* the Sets of the entries of ms, one after the other
Concat(ms, acc) ==
    IF ms = {} THEN acc
    ELSE LET m == CHOOSE x \in ms : TRUE IN Concat(ms \ {m}, acc \o sseClients[m].set)

\* Recipients that takes the clients of every entry of the Map
Recipients_Every(m) == Concat(StreamIds, <<>>)

\* sseClients.get(meetingId): the clients of the meeting's entry, in insertion order
Recipients(m) == IF sseClients[m].has THEN sseClients[m].set ELSE <<>>

\* position of the first client of cs whose send throws, 0 if there is none
FirstFailing(cs, fails) ==
    IF \E k \in DOMAIN cs : cs[k] \in fails
    THEN CHOOSE k \in DOMAIN cs : cs[k] \in fails /\ \A j \in 1..k - 1 : cs[j] \notin fails
    ELSE 0

\* SendAll without the try/catch around client.send: the first throw ends the forEach and
\* reaches the caller
SendAll_NoCatch(cs, fails) ==
    LET f == FirstFailing(cs, fails)
    IN IF f = 0
       THEN [sent |-> {cs[k] : k \in DOMAIN cs}, threw |-> {}, raised |-> FALSE]
       ELSE [sent |-> {cs[k] : k \in 1..f - 1}, threw |-> {cs[f]}, raised |-> TRUE]

\* clients.forEach: client.send is called for each client in turn inside try/catch; the
\* clients of fails are those whose send throws
SendAll(cs, fails) ==
    [sent |-> {cs[k] : k \in DOMAIN cs} \ fails,
     threw |-> {cs[k] : k \in DOMAIN cs} \cap fails,
     raised |-> FALSE]

\* broadcastToMeeting(m, e): one synchronous call of broadcastTranscript
BroadcastToMeeting(m, e, fails) ==
    /\ Len(publog) < MaxPublish
    /\ LET r == SendAll(Recipients(m), fails)
       IN /\ clients' = [c \in ClientIds |->
                 IF c \in r.sent THEN [clients[c] EXCEPT !.received = Append(@, e)]
                 ELSE IF c \in r.threw
                      THEN [clients[c] EXCEPT !.dropped = @ \cup {Len(publog) + 1}]
                      ELSE clients[c]]
          /\ publishRaised' = r.raised
    /\ publog' = Append(publog, [meetingId |-> m, event |-> e])
    /\ Publish(m, <<e>>)
    /\ UNCHANGED <<smFrame, transcripts, mergeVars, chanVars, sumVars, sseClients>>

NextPubSub ==
    \/ \E c \in ClientIds, m \in StreamIds : Subscribe(c, m)
    \/ \E c \in ClientIds : Unsubscribe(c)
    \/ \E m \in Meetings, fails \in SUBSET ClientIds : BroadcastToMeeting(m, NextEvent, fails)

SpecPubSub == Init /\ [][NextPubSub]_vars

----------------------------------------------------------------------------
(* Audio Bridge: the life of an audio channel *)

chanFrame == <<meeting, participants, botIds, providerBots, nextBot, startCall, stopCall,
               procRuns, eventsCall, transcriptCall, response, inputs, transcripts,
               mergeVars, pubVars, sumVars>>

\* ws.close() called by the server: the close event is still to come
CloseSocket(ws) == IF ws = "open" THEN "closing" ELSE ws

\* wss.on('connection'): a channel is accepted, currentSession = null
WsConnect(ch) ==
    /\ channels[ch].ws = "new"
    /\ \A d \in ChannelIds : d < ch => channels[d].ws # "new"
    /\ channels' = [channels EXCEPT ![ch].ws = "open"]
    /\ NoPublish
    /\ UNCHANGED <<chanFrame, activeSessions, registered>>

\* a Session replaces the one currentSession referred to: the speech-to-text connection
\* and the interval of the Session replaced stay as they are, no variable refers to them
Replaced(c) == IF c.timer = "running" THEN c.leaked + 1 ELSE c.leaked

\* the number of Sessions replaced so far, on the channels up to ch
RECURSIVE Leaks(_)
Leaks(ch) == IF ch = 0 THEN 0 ELSE channels[ch].leaked + Leaks(ch - 1)

\* a JSON metadata message arrives: readiness is acknowledged at once; with a bot id the
\* lookup of the meeting is issued, without one (NoBot) the handler has nothing more to do
Metadata(ch, b) ==
    /\ channels[ch].ws = "open"
    /\ channels[ch].announced = NoBot
    /\ channels' = [channels EXCEPT ![ch].acked = TRUE, ![ch].announced = b,
                                    ![ch].pending = (b # NoBot)]
    /\ NoPublish
    /\ UNCHANGED <<chanFrame, activeSessions, registered>>

\* a further JSON metadata message with the bot id the channel announced arrives once the
\* lookup of the one before is answered: it is acknowledged and the lookup is issued again
MetadataAgain(ch) ==
    /\ channels[ch].ws = "open"
    /\ channels[ch].announced # NoBot
    /\ ~channels[ch].pending
    /\ Leaks(MaxChannels) < MaxLeaks
    /\ channels' = [channels EXCEPT ![ch].acked = TRUE, ![ch].pending = TRUE]
    /\ NoPublish
    /\ UNCHANGED <<chanFrame, activeSessions, registered>>

\* MetadataResolve that does not close the channel of an unknown bot id
MetadataResolve_NoClose(ch) ==
    /\ channels[ch].pending
    /\ LET b == channels[ch].announced
       IN IF FindByBot(b) = {}
          THEN /\ channels' = [channels EXCEPT ![ch].pending = FALSE]
               /\ UNCHANGED <<activeSessions, registered>>
          ELSE LET m == CHOOSE x \in FindByBot(b) : TRUE
               IN /\ channels' = [channels EXCEPT ![ch].pending = FALSE,
                                                  ![ch].session = [botId |-> b, meetingId |-> m],
                                                  ![ch].stt = "connecting", ![ch].timer = "running",
                                                  ![ch].leaked = Replaced(channels[ch])]
                  /\ activeSessions' = [activeSessions EXCEPT ![b] = m]
                  /\ registered' = [registered EXCEPT ![b] = ch]
    /\ NoPublish
    /\ UNCHANGED chanFrame

\* the lookup is answered: without a meeting the channel is closed; with one, whatever
\* the state of the socket and of activeSessions, a speech-to-text connection is
\* requested (it is connecting), currentSession is stored under the bot id and the summary interval is started
MetadataResolve(ch) ==
    /\ channels[ch].pending
    /\ LET b == channels[ch].announced
       IN IF FindByBot(b) = {}
          THEN /\ channels' = [channels EXCEPT ![ch].pending = FALSE,
                                               ![ch].ws = CloseSocket(@)]
               /\ UNCHANGED <<activeSessions, registered>>
          ELSE LET m == CHOOSE x \in FindByBot(b) : TRUE
               IN /\ channels' = [channels EXCEPT ![ch].pending = FALSE,
                                                  ![ch].session = [botId |-> b, meetingId |-> m],
                                                  ![ch].stt = "connecting", ![ch].timer = "running",
                                                  ![ch].leaked = Replaced(channels[ch])]
                  /\ activeSessions' = [activeSessions EXCEPT ![b] = m]
                  /\ registered' = [registered EXCEPT ![b] = ch]
    /\ NoPublish
    /\ UNCHANGED chanFrame

\* WsClose that also deletes the sseClients entry of the Session's meeting
WsClose_DropsViewers(ch) ==
    /\ channels[ch].ws \in {"open", "closing"}
    /\ LET cs == channels[ch].session
       IN IF cs = NoSession
          THEN /\ channels' = [channels EXCEPT ![ch].ws = "closed"]
               /\ UNCHANGED <<activeSessions, registered, sseClients>>
          ELSE /\ channels' = [channels EXCEPT ![ch].ws = "closed", ![ch].stt = "finished",
                                               ![ch].timer = "cleared"]
               /\ activeSessions' = [activeSessions EXCEPT ![cs.botId] = NULL]
               /\ registered' = [registered EXCEPT ![cs.botId] = 0]
               /\ sseClients' = [sseClients EXCEPT ![cs.meetingId] = NoEntry]
    /\ NoPublish
    /\ UNCHANGED <<meeting, participants, botIds, providerBots, nextBot, startCall, stopCall,
                   procRuns, eventsCall, transcriptCall, response, inputs, transcripts,
                   mergeVars, sumVars, clients, publog, publishRaised>>

\* ws.on('close'): with a currentSession, its speech-to-text connection is finished, its
\* interval is cleared and the entry of its bot id is deleted from activeSessions
WsClose(ch) ==
    /\ channels[ch].ws \in {"open", "closing"}
    /\ LET cs == channels[ch].session
       IN IF cs = NoSession
          THEN /\ channels' = [channels EXCEPT ![ch].ws = "closed"]
               /\ UNCHANGED <<activeSessions, registered>>
          ELSE /\ channels' = [channels EXCEPT ![ch].ws = "closed", ![ch].stt = "finished",
                                               ![ch].timer = "cleared"]
               /\ activeSessions' = [activeSessions EXCEPT ![cs.botId] = NULL]
               /\ registered' = [registered EXCEPT ![cs.botId] = 0]
    /\ NoPublish
    /\ UNCHANGED chanFrame

\* the speech-to-text connection of a Session opens: getReadyState() is 1 from now on
SttOpen(ch) ==
    /\ channels[ch].stt = "connecting"
    /\ channels' = [channels EXCEPT ![ch].stt = "open"]
    /\ NoPublish
    /\ UNCHANGED <<chanFrame, activeSessions, registered>>

\* the speech-to-text provider ends the connection of a Session
SttDrop(ch) ==
    /\ channels[ch].stt \in {"connecting", "open"}
    /\ channels' = [channels EXCEPT ![ch].stt = "closed"]
    /\ NoPublish
    /\ UNCHANGED <<chanFrame, activeSessions, registered>>

\* the number of binary frames received so far, on the channels up to ch
RECURSIVE FramesReceived(_)
FramesReceived(ch) == IF ch = 0 THEN 0 ELSE channels[ch].frames + FramesReceived(ch - 1)

\* AudioFrame that forwards to any speech-to-text connection of a Session, open or not
AudioFrame_NoReadyCheck(ch) ==
    /\ channels[ch].ws \in {"open", "closing"}
    /\ FramesReceived(MaxChannels) < MaxFrames
    /\ channels' = [channels EXCEPT
          ![ch].frames = @ + 1,
          ![ch].forwarded = IF channels[ch].session # NoSession
                            THEN Append(@, channels[ch].frames + 1) ELSE @]
    /\ NoPublish
    /\ UNCHANGED <<chanFrame, activeSessions, registered>>

\* a binary frame arrives, the next of its channel: with a currentSession whose
\* speech-to-text connection reports ready state 1 it is sent to that connection,
\* otherwise it is logged and forgotten
AudioFrame(ch) ==
    /\ channels[ch].ws \in {"open", "closing"}
    /\ FramesReceived(MaxChannels) < MaxFrames
    /\ channels' = [channels EXCEPT
          ![ch].frames = @ + 1,
          ![ch].forwarded = IF channels[ch].session # NoSession /\ channels[ch].stt = "open"
                            THEN Append(@, channels[ch].frames + 1) ELSE @]
    /\ NoPublish
    /\ UNCHANGED <<chanFrame, activeSessions, registered>>

NextChannel ==
    \/ \E ch \in ChannelIds : WsConnect(ch)
    \/ \E ch \in ChannelIds, b \in AnnouncedBots \cup {NoBot} : Metadata(ch, b)
    \/ \E ch \in ChannelIds : MetadataResolve(ch)
    \/ \E ch \in ChannelIds : SttOpen(ch)
    \/ \E ch \in ChannelIds : SttDrop(ch)
    \/ \E ch \in ChannelIds : AudioFrame(ch)
    \/ \E ch \in ChannelIds : WsClose(ch)

\* a meeting is recording with its bot; no audio channel is connected yet
InitChannel ==
    /\ meeting = [m \in Meetings |-> [status |-> "recording", startedAt |-> "startBot",
                                      zoomMeetingId |-> SessionBot, summary |-> NULL]]
    /\ participants = [m \in Meetings |-> <<>>]
    /\ botIds = [m \in Meetings |-> SessionBot]
    /\ providerBots = {SessionBot}
    /\ nextBot = SessionBot + 1
    /\ activeSessions = [b \in BotIdSet |-> NULL]
    /\ startCall = [m \in Meetings |-> IdleCall]
    /\ stopCall = [m \in Meetings |-> IdleCall]
    /\ procRuns = [m \in Meetings |-> <<>>]
    /\ eventsCall = IdleCall
    /\ transcriptCall = IdleCall
    /\ published = [m \in Meetings |-> <<>>]
    /\ response = NoResponse
    /\ inputs = 2
    /\ InitMergeIdle
    /\ InitBridgeIdle
    /\ transcripts = [m \in Meetings |-> <<>>]

SpecChannel == InitChannel /\ [][NextChannel]_vars

\* the life of an audio channel whose provider sends more than one metadata message
NextSessions ==
    \/ \E ch \in ChannelIds : WsConnect(ch)
    \/ \E ch \in ChannelIds, b \in AnnouncedBots \cup {NoBot} : Metadata(ch, b)
    \/ \E ch \in ChannelIds : MetadataAgain(ch)
    \/ \E ch \in ChannelIds : MetadataResolve(ch)
    \/ \E ch \in ChannelIds : SttOpen(ch)
    \/ \E ch \in ChannelIds : SttDrop(ch)
    \/ \E ch \in ChannelIds : WsClose(ch)

SpecSessions == InitChannel /\ [][NextSessions]_vars

----------------------------------------------------------------------------
(* Summarization Scheduler: the summary interval of a Session *)

\* the actionItems of a summary that generateLiveSummary may return
ItemLists == {<<>>, <<"t1">>, <<"t1", "t1">>}

sumFrame == <<participants, botIds, providerBots, nextBot, activeSessions, startCall,
              stopCall, procRuns, eventsCall, transcriptCall, inputs, transcripts,
              mergeVars, pubVars, chanVars>>

\* a run of the interval callback for the meeting of its Session, numbered by its tick
NewRun(m) == [id |-> ticks + 1, meetingId |-> m, pc |-> "findMany", items |-> <<>>,
              history |-> <<>>]

\* the interval fires: a run of the callback starts, whatever runs are still in flight
TimerTick(ch) ==
    /\ channels[ch].timer = "running"
    /\ ticks < MaxRuns
    /\ ticks' = ticks + 1
    /\ runs' = Append(runs, NewRun(channels[ch].session.meetingId))
    /\ NoPublish /\ Silent
    /\ UNCHANGED <<sumFrame, meeting, actionItems, summaryHistory>>

\* RunFindMany without the check of transcripts.length: the summary is always requested
RunFindMany_NoEmptyCheck(i) ==
    /\ i \in DOMAIN runs
    /\ runs[i].pc = "findMany"
    /\ runs' = [runs EXCEPT ![i].pc = "summary"]
    /\ NoPublish /\ Silent
    /\ UNCHANGED <<sumFrame, meeting, ticks, actionItems, summaryHistory>>

\* transcript.findMany: without a transcript the run returns, with one the summary is
\* requested
RunFindMany(i) ==
    /\ i \in DOMAIN runs
    /\ runs[i].pc = "findMany"
    /\ runs' = IF transcripts[runs[i].meetingId] = <<>>
               THEN RemoveAt(runs, i)
               ELSE [runs EXCEPT ![i].pc = "summary"]
    /\ NoPublish /\ Silent
    /\ UNCHANGED <<sumFrame, meeting, ticks, actionItems, summaryHistory>>

\* the action items left to save: after the last one the summary is broadcast and the
\* meeting's summaryHistory is read
AfterItems(i, rest) ==
    /\ runs' = [runs EXCEPT ![i].items = rest,
                            ![i].pc = IF rest = <<>> THEN "findMeeting" ELSE "findItem"]
    /\ IF rest = <<>>
       THEN Publish(runs[i].meetingId, <<SummaryEvent(FALSE)>>)
       ELSE NoPublish

\* generateLiveSummary resolves with a list of action items
RunSummaryOk(i, items) ==
    /\ i \in DOMAIN runs
    /\ runs[i].pc = "summary"
    /\ AfterItems(i, items)
    /\ Silent
    /\ UNCHANGED <<sumFrame, meeting, ticks, actionItems, summaryHistory>>

\* generateLiveSummary rejects: the catch of the callback logs it and the run ends
RunSummaryFail(i) ==
    /\ i \in DOMAIN runs
    /\ runs[i].pc = "summary"
    /\ runs' = RemoveAt(runs, i)
    /\ NoPublish /\ Silent
    /\ UNCHANGED <<sumFrame, meeting, ticks, actionItems, summaryHistory>>

\* prisma.actionItem.findFirst({ where: { meetingId, title } })
ExistingItem(m, title) == \E k \in DOMAIN actionItems[m] : actionItems[m][k] = title

\* actionItem.findFirst for the next title: an existing item is skipped, a missing one
\* is created by the next step
RunFindItem(i) ==
    /\ i \in DOMAIN runs
    /\ runs[i].pc = "findItem"
    /\ IF ExistingItem(runs[i].meetingId, Head(runs[i].items))
       THEN AfterItems(i, Tail(runs[i].items))
       ELSE runs' = [runs EXCEPT ![i].pc = "createItem"] /\ NoPublish
    /\ Silent
    /\ UNCHANGED <<sumFrame, meeting, ticks, actionItems, summaryHistory>>

\* actionItem.create for the title that findFirst did not find
RunCreateItem(i) ==
    /\ i \in DOMAIN runs
    /\ runs[i].pc = "createItem"
    /\ actionItems' = [actionItems EXCEPT ![runs[i].meetingId] = Append(@, Head(runs[i].items))]
    /\ AfterItems(i, Tail(runs[i].items))
    /\ Silent
    /\ UNCHANGED <<sumFrame, meeting, ticks, summaryHistory>>

\* meeting.findUnique({ select: { summaryHistory } }): the history is read
RunFindMeeting(i) ==
    /\ i \in DOMAIN runs
    /\ runs[i].pc = "findMeeting"
    /\ runs' = [runs EXCEPT ![i].pc = "update", ![i].history = summaryHistory[runs[i].meetingId]]
    /\ NoPublish /\ Silent
    /\ UNCHANGED <<sumFrame, meeting, ticks, actionItems, summaryHistory>>

\* meeting.update: the summary of the run becomes the meeting's summary and the history
\* that was read, with one more entry, its summaryHistory
RunUpdate(i) ==
    /\ i \in DOMAIN runs
    /\ runs[i].pc = "update"
    /\ meeting' = [meeting EXCEPT ![runs[i].meetingId].summary = "periodic"]
    /\ summaryHistory' = [summaryHistory EXCEPT ![runs[i].meetingId] =
                              Append(runs[i].history, "periodic")]
    /\ runs' = RemoveAt(runs, i)
    /\ NoPublish /\ Silent
    /\ UNCHANGED <<sumFrame, ticks, actionItems>>

NextSummary ==
    \/ \E ch \in ChannelIds : TimerTick(ch)
    \/ \E i \in 1..MaxRuns : RunFindMany(i)
    \/ \E i \in 1..MaxRuns, items \in ItemLists : RunSummaryOk(i, items)
    \/ \E i \in 1..MaxRuns : RunSummaryFail(i)
    \/ \E i \in 1..MaxRuns : RunFindItem(i)
    \/ \E i \in 1..MaxRuns : RunCreateItem(i)
    \/ \E i \in 1..MaxRuns : RunFindMeeting(i)
    \/ \E i \in 1..MaxRuns : RunUpdate(i)
    \/ \E b \in BotIdSet : LiveFragment(b)
    \/ \E m \in Meetings : StopBot(m)
    \/ \E m \in Meetings : StopProviderOk(m)
    \/ \E m \in Meetings : StopProviderFail(m)
    \/ \E m \in Meetings : StopUpdate(m)
    \/ \E m \in Meetings : \E i \in 1..MaxInputs + 1 : ProcFind(m, i)
    \/ \E m \in Meetings : \E i \in 1..MaxInputs + 1 : ProcUpdateEmpty(m, i)
    \/ \E m \in Meetings : \E i \in 1..MaxInputs + 1 : ProcSummaryOk(m, i)
    \/ \E m \in Meetings : \E i \in 1..MaxInputs + 1 : ProcSummaryFail(m, i)
    \/ \E m \in Meetings : \E i \in 1..MaxInputs + 1 : ProcUpdate(m, i)
    \/ \E ch \in ChannelIds : WsClose(ch)

\* the first audio channel of a recording meeting holds its Session, with the
\* speech-to-text connection open and the summary interval running; the user may still
\* send one command
InitSummary ==
    /\ meeting = [m \in Meetings |-> [status |-> "recording", startedAt |-> "startBot",
                                      zoomMeetingId |-> SessionBot, summary |-> NULL]]
    /\ participants = [m \in Meetings |-> <<>>]
    /\ botIds = [m \in Meetings |-> SessionBot]
    /\ providerBots = {SessionBot}
    /\ nextBot = SessionBot + 1
    /\ activeSessions = [b \in BotIdSet |-> IF b = SessionBot THEN SessionMeeting ELSE NULL]
    /\ startCall = [m \in Meetings |-> IdleCall]
    /\ stopCall = [m \in Meetings |-> IdleCall]
    /\ procRuns = [m \in Meetings |-> <<>>]
    /\ eventsCall = IdleCall
    /\ transcriptCall = IdleCall
    /\ published = [m \in Meetings |-> <<>>]
    /\ response = NoResponse
    /\ inputs = MaxInputs - 1
    /\ InitMergeIdle
    /\ InitPubIdle
    /\ InitSumIdle
    /\ channels = [ch \in ChannelIds |->
          IF ch = 1
          THEN [ws |-> "open", acked |-> TRUE, announced |-> SessionBot, pending |-> FALSE,
                session |-> [botId |-> SessionBot, meetingId |-> SessionMeeting],
                stt |-> "open", timer |-> "running", frames |-> 0, forwarded |-> <<>>,
                leaked |-> 0]
          ELSE NewChannel]
    /\ registered = [b \in BotIdSet |-> IF b = SessionBot THEN 1 ELSE 0]
    /\ transcripts = [m \in Meetings |-> <<>>]

SpecSummary == InitSummary /\ [][NextSummary]_vars

----------------------------------------------------------------------------
(* Session teardown while viewers are subscribed *)

NextTeardown ==
    \/ \E c \in ClientIds, m \in Meetings : Subscribe(c, m)
    \/ \E c \in ClientIds : Unsubscribe(c)
    \/ \E m \in Meetings, fails \in SUBSET ClientIds : BroadcastToMeeting(m, NextEvent, fails)
    \/ \E ch \in ChannelIds : WsClose(ch)

\* the first audio channel holds the Session of a recording meeting; no viewer yet
SpecTeardown == InitSummary /\ [][NextTeardown]_vars

----------------------------------------------------------------------------
(* Properties of the meeting state machine *)

Terminal == {"completed", "failed"}

\* position in scheduled < recording < processing < completed
Rank(s) ==
    CASE s = "scheduled" -> 0
      [] s = "recording" -> 1
      [] s = "processing" -> 2
      [] s = "completed" -> 3
Ordered == {"scheduled", "recording", "processing", "completed"}

\* the step is the update of an events-webhook request for event ev on meeting m
EventsUpdateStep(m, ev) ==
    /\ eventsCall.pc = "update" /\ eventsCall.event = ev /\ eventsCall.id = m
    /\ eventsCall'.pc = "idle"

\* the step is the return of processMeeting run i of meeting m
ProcReturnStep(m, i) ==
    /\ i \in DOMAIN procRuns[m]
    /\ procRuns[m][i].pc \in {"updateEmpty", "update"}
    /\ procRuns'[m] = RemoveAt(procRuns[m], i)

\* C1: once a meeting is completed or failed, no step changes its status.
C1_TerminalStatusKept ==
    [][\A m \in Meetings :
          meeting[m].status \in Terminal => meeting'[m].status = meeting[m].status]_vars

\* C2: no delivery of meeting.completed, the first or a repeated one, at whatever
\* point, moves the status of the meeting back to an earlier status.
C2_MeetingCompletedNeverRegresses ==
    [][\A m \in Meetings :
          (EventsUpdateStep(m, "meeting.completed") /\ meeting[m].status \in Ordered)
              => Rank(meeting'[m].status) >= Rank(meeting[m].status)]_vars

\* C3: in every interleaving, no step moves the status of a meeting backwards in
\* scheduled < recording < processing < completed.
C3_StatusMonotonic ==
    [][\A m \in Meetings :
          (meeting[m].status \in Ordered /\ meeting'[m].status \in Ordered)
              => Rank(meeting'[m].status) >= Rank(meeting[m].status)]_vars

\* C4: when the meeting.completed webhook moves a recording meeting to processing,
\* a final-processing run is started for it by that handler.
C4_MeetingCompletedTriggersProcessing ==
    [][\A m \in Meetings :
          (EventsUpdateStep(m, "meeting.completed") /\ meeting[m].status = "recording"
              /\ meeting'[m].status = "processing")
              => Len(procRuns'[m]) > Len(procRuns[m])]_vars

\* C5: a final-processing run started by a user stop that finds no transcript fragment
\* never calls the summarization function, and returns writing status completed,
\* storing no summary and publishing nothing, without an error response or a failed status.
C5_StopWithoutTranscript ==
    /\ [](\A m \in Meetings : \A i \in DOMAIN procRuns[m] :
            procRuns[m][i].empty =>
                /\ ~procRuns[m][i].called
                /\ procRuns[m][i].pc = "updateEmpty"
                /\ ENABLED ProcUpdateEmpty(m, i))
    /\ [][\A m \in Meetings : \A i \in DOMAIN procRuns[m] :
            (ProcReturnStep(m, i) /\ procRuns[m][i].empty) =>
                /\ meeting'[m].status = "completed"
                /\ meeting'[m].summary = meeting[m].summary
                /\ response'.code # 500]_vars

\* C5 witness: a run that found no fragment has just returned and the meeting is completed
\* with no summary stored.
C5_Witness ==
    \E m \in Meetings :
        /\ meeting[m].status = "completed" /\ meeting[m].summary = NULL
        /\ transcripts[m] = <<>> /\ procRuns[m] = <<>>
        /\ stopCall[m].pc = "idle" /\ inputs = 2 /\ response = NoResponse
        /\ botIds[m] = NoBot /\ meeting[m].zoomMeetingId # NoBot

\* C6: whenever a final-processing run writes status completed, a status event carrying
\* completed is published to the meeting in that step.
C6_CompletedIsPublished ==
    [][\A m \in Meetings :
          ((\E i \in DOMAIN procRuns[m] : ProcReturnStep(m, i))
              /\ meeting'[m].status = "completed")
              => \E k \in DOMAIN published'[m] : published'[m][k] = StatusEvent("completed")]_vars

\* the step is the return of a startBot call of meeting m through its catch block
StartFailedStep(m) == startCall[m].pc = "catch" /\ startCall'[m].pc = "idle"

\* C7: a startBot call whose createBot failed returns with status failed and an error
\* response, recording no bot id and creating no bot and no Session; a meeting no start
\* of which succeeded has no bot id and no Session (with its timer).
C7_StartFailure ==
    /\ [][\A m \in Meetings : StartFailedStep(m) =>
            /\ meeting'[m].status = "failed"
            /\ response' = [route |-> "start-bot", code |-> 500, event |-> "none"]
            /\ meeting'[m].zoomMeetingId = meeting[m].zoomMeetingId
            /\ botIds' = botIds /\ providerBots' = providerBots
            /\ activeSessions' = activeSessions]_vars
    /\ [](\A m \in Meetings :
            (meeting[m].startedAt = NULL /\ startCall[m].pc # "update") =>
                /\ meeting[m].zoomMeetingId = NoBot /\ botIds[m] = NoBot
                /\ \A b \in BotIdSet : activeSessions[b] # m /\ m \notin FindByBot(b))

\* C7 witness: the start of a scheduled meeting has just failed.
C7_Witness ==
    \E m \in Meetings :
        /\ response = [route |-> "start-bot", code |-> 500, event |-> "none"]
        /\ meeting[m].status = "failed" /\ meeting[m].startedAt = NULL
        /\ meeting[m].zoomMeetingId = NoBot

\* C8: every meeting.completed request for a known bot id asks the provider to stop the
\* bot before its update, and whether that call succeeded or failed the update writes
\* processing and the webhook answers success.
C8_AutoStop ==
    /\ [](eventsCall.pc # "idle" /\ eventsCall.event = "meeting.completed" =>
            \/ eventsCall.pc = "stopBot" /\ eventsCall.stop = "none"
            \/ eventsCall.pc = "update" /\ eventsCall.stop \in {"ok", "failed"})
    /\ [][eventsCall.pc = "stopBot" => eventsCall'.pc \in {"stopBot", "update"}]_vars
    /\ [][\A m \in Meetings : EventsUpdateStep(m, "meeting.completed") =>
            /\ meeting'[m].status = "processing"
            /\ response' = [route |-> "events", code |-> 200, event |-> "meeting.completed"]]_vars

\* C8 witness: a meeting.completed webhook whose stop call failed has been answered: the
\* bot is still running at the provider and the meeting is processing.
C8_Witness ==
    \E m \in Meetings :
        /\ response = [route |-> "events", code |-> 200, event |-> "meeting.completed"]
        /\ meeting[m].status = "processing"
        /\ meeting[m].zoomMeetingId \in providerBots

\* the step is the arrival of a webhook request, for events or for the transcript
WebhookArrives == inputs' = inputs + 1 /\ startCall' = startCall /\ stopCall' = stopCall

\* the step answers a webhook with not-found
NotFoundAnswered == response'.route \in {"events", "transcript"} /\ response'.code = 404

\* C24: a webhook that arrives when its bot id can match no meeting is answered 404; a
\* webhook answered 404 changes no meeting, fragment or participant, and no call to the
\* provider is made or left to make (no bot is stopped, no handler stays in flight)
C24_UnknownBotNotFound ==
    /\ [][WebhookArrives /\ (\A b \in BotIdSet : FindByBot(b) = {}) => NotFoundAnswered]_vars
    /\ [][NotFoundAnswered =>
            /\ WebhookArrives
            /\ meeting' = meeting /\ transcripts' = transcripts /\ participants' = participants
            /\ providerBots' = providerBots /\ botIds' = botIds
            /\ eventsCall' = eventsCall /\ transcriptCall' = transcriptCall
            /\ published' = [m \in Meetings |-> <<>>]]_vars

\* C24 witness: a completion webhook was answered 404 while the provider runs a bot that
\* no meeting has recorded yet
C24_Witness ==
    /\ response.route = "transcript" /\ response.code = 404 /\ response.event = "complete"
    /\ providerBots # {}
    /\ \A b \in BotIdSet : FindByBot(b) = {}

\* the fragment that a segment with text is stored as
SegmentFragment(segment) ==
    [text |-> SegmentText(segment), speaker |-> segment.speaker,
     timestamp |-> Floor(segment.start_time)]

\* the step is a step of the transcript webhook's handler at position pc
TranscriptStep(pc) == transcriptCall.pc = pc /\ transcriptCall' # transcriptCall

\* C28: in the handling of a 'complete' webhook every speaker and every segment of the
\* payload gets its turn; the turn of the i-th name gives that name to every stored
\* fragment of the meeting labelled `Speaker i` and touches no other fragment; the turn of
\* a segment stores one fragment for it when it has text and nothing otherwise; the last
\* step sets the status to 'completed', each segment with text being in the store
C28_CompleteStoresAndRenames ==
    /\ [][TranscriptStep("stopBot") =>
            /\ transcriptCall'.i = 1
            /\ transcriptCall'.pc =
                   IF transcriptCall.speakers # <<>> THEN "speakers"
                   ELSE IF transcriptCall.segments # <<>> THEN "segments" ELSE "update"]_vars
    /\ [][TranscriptStep("speakers") =>
            LET c == transcriptCall
                old == transcripts[c.id]
                new == transcripts'[c.id]
            IN /\ Len(new) = Len(old)
               /\ \A k \in DOMAIN old :
                     new[k] = IF old[k].speaker = SpeakerLabel(c.i - 1)
                              THEN [old[k] EXCEPT !.speaker = c.speakers[c.i]]
                              ELSE old[k]
               /\ IF c.i < Len(c.speakers)
                  THEN transcriptCall'.pc = "speakers" /\ transcriptCall'.i = c.i + 1
                  ELSE /\ transcriptCall'.i = 1
                       /\ transcriptCall'.pc =
                              IF c.segments # <<>> THEN "segments" ELSE "update"]_vars
    /\ [][TranscriptStep("segments") =>
            LET c == transcriptCall
                old == transcripts[c.id]
                new == transcripts'[c.id]
            IN /\ new = IF SegmentText(c.segments[c.i]) # <<>>
                        THEN Append(old, SegmentFragment(c.segments[c.i]))
                        ELSE old
               /\ IF c.i < Len(c.segments)
                  THEN transcriptCall'.pc = "segments" /\ transcriptCall'.i = c.i + 1
                  ELSE transcriptCall'.pc = "update"]_vars
    /\ [][TranscriptStep("update") /\ transcriptCall.event = "complete" =>
            LET c == transcriptCall
            IN /\ meeting'[c.id].status = "completed"
               /\ \A j \in DOMAIN c.segments :
                     SegmentText(c.segments[j]) # <<>> =>
                         \E k \in DOMAIN transcripts'[c.id] :
                             transcripts'[c.id][k] = SegmentFragment(c.segments[j])]_vars

\* C28 witness: a 'complete' webhook with a speakers list and segments has been handled:
\* the live fragment of `Speaker 0` now has the first name of the list, the segment with
\* text is stored after it and the meeting is 'completed'
C28_Witness ==
    /\ response = [route |-> "transcript", code |-> 200, event |-> "complete"]
    /\ \E m \in Meetings :
          /\ meeting[m].status = "completed"
          /\ Len(transcripts[m]) = 2
          /\ transcripts[m][1].speaker = "Alice" /\ transcripts[m][1].text = <<"a">>
          /\ transcripts[m][2].text = <<"h", Blank, "i">>
          /\ participants[m] = <<"Alice">>

\* C29: however often a 'complete' webhook is delivered, each of its segments with text
\* is stored once for the meeting
C29_CompleteIsIdempotent ==
    \A m \in Meetings : \A segments \in SegmentLists : \A j \in DOMAIN segments :
        SegmentText(segments[j]) # <<>> =>
            \A k, l \in DOMAIN transcripts[m] :
                (transcripts[m][k] = SegmentFragment(segments[j])
                    /\ transcripts[m][l] = SegmentFragment(segments[j])) => k = l

\* the step is the update of a 'bot.joined' or 'meeting.started' webhook for meeting m
JoinedApplied(m) ==
    /\ eventsCall.pc = "update" /\ eventsCall' = IdleCall
    /\ eventsCall.id = m
    /\ eventsCall.event \in {"meeting.started", "bot.joined"}

\* C32: the update of a 'bot.joined' or 'meeting.started' webhook on a meeting that is
\* 'recording' leaves the status 'recording' and every other field as it was, the start
\* timestamp included when it is set (when it is not, it is set); so the meeting is then
\* 'recording' with a start timestamp, and a second application changes nothing
C32_BotJoinedIdempotent ==
    [][\A m \in Meetings :
          (JoinedApplied(m) /\ meeting[m].status = "recording") =>
              /\ meeting'[m].status = "recording"
              /\ meeting'[m].startedAt # NULL
              /\ meeting[m].startedAt # NULL => meeting' = meeting
              /\ meeting'[m] = [meeting[m] EXCEPT !.startedAt = meeting'[m].startedAt]]_vars

\* C32 witness: a recording meeting started by the user has answered a 'bot.joined'
\* webhook, the second webhook it received, and still has the start timestamp of its start
C32_Witness ==
    /\ response = [route |-> "events", code |-> 200, event |-> "bot.joined"]
    /\ inputs >= 3
    /\ \E m \in Meetings :
          meeting[m].status = "recording" /\ meeting[m].startedAt = "startBot"

\* the step is the rejection of the provider's stopBot in the user's stop of meeting m
StopFails(m) == stopCall[m].pc = "stopBot" /\ stopCall'[m] = IdleCall

\* C37: when the provider's stop fails during a stop by the user, the route answers with
\* an error, the meeting record (status, and with it the end time and duration of the same
\* update) is as it was, no event is published and processMeeting is not started; the bot
\* id stays in botIds
C37_StopFailureChangesNothing ==
    [][\A m \in Meetings :
          StopFails(m) =>
              /\ response' = [route |-> "stop-bot", code |-> 500, event |-> "none"]
              /\ meeting' = meeting
              /\ published' = [x \in Meetings |-> <<>>]
              /\ procRuns' = procRuns
              /\ botIds' = botIds /\ transcripts' = transcripts]_vars

\* C37 witness: the stop of a recording meeting was answered with an error; the meeting
\* is recording still, with its bot id, and no final processing was started
C37_Witness ==
    /\ response = [route |-> "stop-bot", code |-> 500, event |-> "none"]
    /\ \E m \in Meetings :
          /\ meeting[m].status = "recording"
          /\ botIds[m] # NoBot
          /\ procRuns[m] = <<>>
          /\ stopCall[m] = IdleCall

\* the step is the request of a bot for meeting m in a start by the user
BotRequested(m) == startCall[m].pc = "idle" /\ startCall'[m].pc = "createBot"

\* the step is the creation of a bot by the provider for the start of meeting m
BotCreated(m) == startCall[m].pc = "createBot" /\ startCall'[m].pc = "update"

\* C40: a start by the user requests a bot of the provider only for a meeting that is
\* 'scheduled'; no bot is requested or created for a meeting that has a bot id, whose
\* bot id and status no step of a start changes
C40_StartOnlyWhenScheduled ==
    [][\A m \in Meetings :
          /\ BotRequested(m) => (meeting[m].status = "scheduled" /\ botIds[m] = NoBot)
          /\ BotCreated(m) => botIds[m] = NoBot
          /\ (startCall[m] # startCall'[m] /\ botIds[m] # NoBot /\ startCall[m].pc # "update") =>
                 (botIds'[m] = botIds[m] /\ meeting'[m].status = meeting[m].status)]_vars

----------------------------------------------------------------------------
(* Properties of the merger *)

\* the final speech events delivered all have one speaker
OneSpeaker == \A j, k \in DOMAIN arrived : arrived[j].speaker = arrived[k].speaker

\* start offsets strictly increase by less than the merge window from each event to the next
GapsWithinWindow ==
    \A k \in 2..Len(arrived) :
        /\ arrived[k].start > arrived[k - 1].start
        /\ arrived[k].start - arrived[k - 1].start < MergeWindow * TicksPerSecond

\* each start offset exceeds the one before by more than the merge window
GapsExceedWindow ==
    \A k \in 2..Len(arrived) :
        arrived[k].start - arrived[k - 1].start > MergeWindow * TicksPerSecond

\* the trimmed texts of the events, joined by single spaces in arrival order
RECURSIVE JoinedTexts(_)
JoinedTexts(evs) ==
    IF Len(evs) = 1 THEN Trim(evs[1].text)
    ELSE JoinedTexts(SubSeq(evs, 1, Len(evs) - 1)) \o <<Blank>> \o Trim(evs[Len(evs)].text)

\* C9: once the final speech events of a Session, all of one speaker and each less than
\* the merge window after the one before, are handled, the store holds exactly one
\* fragment for them, its text their texts joined by single spaces in arrival order.
C9_RunOfOneSpeakerIsOneFragment ==
    (handlers = <<>> /\ arrived # <<>> /\ OneSpeaker /\ GapsWithinWindow) =>
        /\ Len(transcripts[SessionMeeting]) = 1
        /\ transcripts[SessionMeeting][1].text = JoinedTexts(arrived)
        /\ transcripts[SessionMeeting][1].speaker = arrived[1].speaker

\* C10: once final speech events each more than the merge window after the one before
\* are handled, every one of them has created a fragment of its own.
C10_GapsBeyondWindowCreateFragments ==
    (handlers = <<>> /\ arrived # <<>> /\ GapsExceedWindow) =>
        Len(transcripts[SessionMeeting]) = Len(arrived)

\* no final speech event arrived while the handler of another was in flight
OneAtATime == \A k \in DOMAIN arrived : ~arrived[k].busy

\* the final speech events are a run of one speaker, each less than the merge window after
\* the one before, followed by one event of another speaker
RunThenOther ==
    /\ Len(arrived) >= 2
    /\ \A k \in 1..Len(arrived) - 1 : arrived[k].speaker = arrived[1].speaker
    /\ arrived[Len(arrived)].speaker # arrived[1].speaker
    /\ \A k \in 2..Len(arrived) - 1 :
          /\ arrived[k].start > arrived[k - 1].start
          /\ arrived[k].start - arrived[k - 1].start < MergeWindow * TicksPerSecond

\* the step is the arrival of a final speech event whose speaker is not the cursor's
OtherSpeakerArrives ==
    /\ Len(arrived') = Len(arrived) + 1
    /\ arrived'[Len(arrived')].speaker # session.lastSpeaker

RECURSIVE StoredText(_)
StoredText(frags) ==
    IF Len(frags) = 1 THEN frags[1].text
    ELSE StoredText(SubSeq(frags, 1, Len(frags) - 1)) \o <<Blank>> \o frags[Len(frags)].text

\* C25: once the final speech events of a meeting are handled, the store holds their
\* texts in the order the provider emitted them, none lost or overwritten, also when an
\* event arrived while the handler of the one before was awaiting the store
C25_EventsAppliedInOrder ==
    (handlers = <<>> /\ arrived # <<>>) =>
        /\ transcripts[SessionMeeting] # <<>>
        /\ StoredText(transcripts[SessionMeeting]) = JoinedTexts(arrived)

\* the step receives an interim event
InterimArrives == streamPos'.others = streamPos.others + 1 /\ streamPos'.got.kind = "interim"

\* the step stores nothing, issues no store operation and leaves the merge cursor alone
NothingPersisted == transcripts' = transcripts /\ handlers' = handlers /\ session' = session

\* what the step published is one transcript event, not final, with the text received
PreviewPublished ==
    /\ Len(published'[SessionMeeting]) = 1
    /\ published'[SessionMeeting][1].type = "transcript"
    /\ published'[SessionMeeting][1].isFinal = FALSE
    /\ published'[SessionMeeting][1].text = streamPos'.got.text

\* C23 as stated: an interim event creates and modifies no fragment, leaves the merge
\* cursor alone, and is published as a transcript event that is not final
C23_InterimIsPublished ==
    [][InterimArrives => NothingPersisted /\ PreviewPublished]_vars

\* C23 amended: an interim event creates and modifies no fragment and leaves the merge
\* cursor alone; it is published as a transcript event that is not final when its text is
\* not empty, and an interim event with empty text is not published at all
C23_InterimWithTextIsPublished ==
    [][InterimArrives =>
          /\ NothingPersisted
          /\ IF streamPos'.got.text # <<>>
             THEN PreviewPublished
             ELSE published'[SessionMeeting] = <<>>]_vars

\* C23 witness: an interim event with text was received and published while the handler
\* of a final event was awaiting the store, fragments being stored and the cursor set
C23_Witness ==
    /\ streamPos.got.kind = "interim" /\ streamPos.got.text # <<>>
    /\ published[SessionMeeting] # <<>>
    /\ handlers # <<>>
    /\ transcripts[SessionMeeting] # <<>>
    /\ session.lastSpeaker # NULL

\* the step is the update of the merge branch of handler i
MergeApplied(i) ==
    /\ i \in DOMAIN handlers
    /\ handlers[i].pc = "update"
    /\ handlers' = RemoveAt(handlers, i)

\* C33: a merge creates no fragment and changes only the text of one fragment that exists:
\* its timestamp and speaker, and every other fragment of every meeting, are as before
C33_MergeChangesOnlyText ==
    [][\A i \in 1..(MaxEvents + 1) :
          MergeApplied(i) =>
              LET old == transcripts[SessionMeeting]
                  new == transcripts'[SessionMeeting]
              IN /\ Len(new) = Len(old)
                 /\ \A m \in Meetings \ {SessionMeeting} : transcripts'[m] = transcripts[m]
                 /\ \E k \in DOMAIN old :
                       /\ k = handlers[i].id
                       /\ new[k] = [old[k] EXCEPT !.text = new[k].text]
                       /\ new[k].text = handlers[i].found \o <<Blank>> \o Trim(handlers[i].data.text)
                       /\ \A j \in DOMAIN old \ {k} : new[j] = old[j]]_vars

\* C33 witness: of two fragments one holds the text of two events, joined by a space
C33_Witness ==
    /\ Len(transcripts[SessionMeeting]) = 2
    /\ \E k \in DOMAIN transcripts[SessionMeeting] :
          transcripts[SessionMeeting][k].text = <<"a", Blank, "a">>

\* C34: every fragment holds the floor of the start offset of a final speech event of its
\* speaker, offset 0 included, and the cursor's lastTimestamp is 0 (initially) or the start
\* offset of such an event: the wall clock is neither a fragment timestamp nor a cursor time
C34_TimestampIsStartOffset ==
    /\ \A k \in DOMAIN transcripts[SessionMeeting] :
          \E e \in DOMAIN arrived :
             /\ transcripts[SessionMeeting][k].timestamp = Floor(arrived[e].start)
             /\ transcripts[SessionMeeting][k].speaker = arrived[e].speaker
    /\ \/ session.lastTimestamp = 0
       \/ \E e \in DOMAIN arrived : session.lastTimestamp = arrived[e].start

\* the step ends handler i
HandlerEnds(i) == i \in DOMAIN handlers /\ handlers' = RemoveAt(handlers, i)

\* text s ends with text t
EndsWith(s, t) == Len(s) >= Len(t) /\ SubSeq(s, Len(s) - Len(t) + 1, Len(s)) = t

\* C36: when the handler of a final speech event ends, a fragment of the meeting ends
\* with the trimmed text of the event, whichever branch the handler took
C36_FinalTextIsStored ==
    [][\A i \in 1..(MaxEvents + 1) :
          HandlerEnds(i) =>
              \E k \in DOMAIN transcripts'[SessionMeeting] :
                  EndsWith(transcripts'[SessionMeeting][k].text, Trim(handlers[i].data.text))]_vars

----------------------------------------------------------------------------
(* Properties of the Subscriber Registry *)

RECURSIVE Deliveries(_, _, _)
\* the events broadcast by calls k..hi to the meeting of client c whose send to c did not
\* throw, in the order of the calls
Deliveries(c, k, hi) ==
    IF k > hi THEN <<>>
    ELSE (IF publog[k].meetingId = clients[c].meetingId /\ k \notin clients[c].dropped
          THEN <<publog[k].event>> ELSE <<>>) \o Deliveries(c, k + 1, hi)

\* what a client is due: the connected message, then the events broadcast to its meeting
\* from its registration until its handle was first called
Expected(c) ==
    <<ConnectedEvent>> \o
        Deliveries(c, clients[c].since + 1,
                   IF clients[c].state = "gone" THEN clients[c].until ELSE Len(publog))

\* C12: each client has been written, in the order of the broadcastToMeeting calls and
\* each once, exactly the events broadcast to its meeting while it was registered (those
\* whose send threw apart); nothing broadcast to another meeting, before its registration
\* or after its unregistration.
C12_DeliveredInPublishOrder ==
    \A c \in ClientIds : clients[c].state # "new" => clients[c].received = Expected(c)

\* C12 witness: a client registered before two broadcasts of different events to its
\* meeting holds the first, then the second.
C12_Witness ==
    \E c \in ClientIds :
        /\ clients[c].state = "live" /\ clients[c].since = 0 /\ Len(publog) = 2
        /\ publog[1].event # publog[2].event
        /\ clients[c].received = <<ConnectedEvent, publog[1].event, publog[2].event>>

\* C13: in a broadcast, every client of the meeting whose own send does not throw is
\* written the event, whether or not the send of another client throws, and the call
\* returns normally.
C13_FailedSendIsIsolated ==
    [][publog' # publog =>
          /\ publishRaised' = FALSE
          /\ \A k \in DOMAIN sseClients[publog'[Len(publog')].meetingId].set :
                LET c == sseClients[publog'[Len(publog')].meetingId].set[k]
                IN clients'[c].dropped = clients[c].dropped =>
                       clients'[c].received = Append(clients[c].received, publog'[Len(publog')].event)
         ]_vars

\* C13 witness: the send of the first client of a meeting threw in a broadcast that the
\* second client of the meeting received.
C13_Witness ==
    \E m \in Meetings : \E k \in DOMAIN publog :
        /\ sseClients[m].has /\ Len(sseClients[m].set) = 2
        /\ k \in clients[sseClients[m].set[1]].dropped
        /\ clients[sseClients[m].set[2]].since < k
        /\ k \notin clients[sseClients[m].set[2]].dropped
        /\ Len(clients[sseClients[m].set[2]].received) > 1
        /\ publishRaised = FALSE

\* the clients that subscribed to m and have not unsubscribed
Subscribers(m) == {c \in ClientIds : clients[c].state = "live" /\ clients[c].meetingId = m}

\* C14: the Map has an entry for a meeting exactly when the meeting has a client that
\* subscribed and has not unsubscribed; the entry's Set holds exactly those clients, each
\* once, and is never empty.
C14_RegistryMatchesSubscribers ==
    \A m \in StreamIds :
        /\ sseClients[m].has <=> Subscribers(m) # {}
        /\ sseClients[m].has => sseClients[m].set # <<>>
        /\ {sseClients[m].set[k] : k \in DOMAIN sseClients[m].set} = Subscribers(m)
        /\ Len(sseClients[m].set) = Cardinality(Subscribers(m))

\* C14 witness: a client's handle was called twice, the second time after another client
\* had subscribed to the same meeting, and the entry holds the other client alone.
C14_Witness ==
    \E c, d \in ClientIds :
        /\ clients[c].state = "gone" /\ clients[c].calls = 2
        /\ clients[d].state = "live" /\ clients[d].meetingId = clients[c].meetingId
        /\ sseClients[clients[d].meetingId] = Entry(<<d>>)

\* the step is the close of audio channel ch
ChannelCloses(ch) == channels[ch].ws # "closed" /\ channels'[ch].ws = "closed"

\* C31: the close of an audio channel, with the teardown of its Session, changes neither
\* the Map of subscribers nor any subscriber; an event broadcast to a meeting after a
\* channel has closed is written to every client subscribed to the meeting whose own
\* send does not throw
C31_TeardownKeepsSubscribers ==
    /\ [][\A ch \in ChannelIds :
            ChannelCloses(ch) => sseClients' = sseClients /\ clients' = clients]_vars
    /\ [][(publog' # publog /\ \E ch \in ChannelIds : channels[ch].ws = "closed") =>
            \A c \in Subscribers(publog'[Len(publog')].meetingId) :
                clients'[c].dropped = clients[c].dropped =>
                    clients'[c].received
                        = Append(clients[c].received, publog'[Len(publog')].event)]_vars

\* C31 witness: the channel of the meeting's Session has closed and the Session is gone;
\* the last step broadcast an event to the meeting, which a client subscribed before that
\* broadcast holds after its connected message
C31_Witness ==
    \E c \in ClientIds :
        /\ channels[1].ws = "closed" /\ channels[1].session # NoSession
        /\ activeSessions[channels[1].session.botId] = NULL
        /\ clients[c].state = "live" /\ clients[c].meetingId = channels[1].session.meetingId
        /\ published[clients[c].meetingId] # <<>>
        /\ clients[c].received = <<ConnectedEvent>> \o published[clients[c].meetingId]

----------------------------------------------------------------------------
(* Properties of the Audio Bridge *)

\* the step is the answer to the metadata lookup of channel ch
LookupAnswered(ch) == channels[ch].pending /\ ~channels'[ch].pending

\* C18: a closed audio channel has no open speech-to-text connection, no running summary
\* interval and no Session of its own in activeSessions, also when it closed while its
\* metadata lookup was pending.
C18_ClosedChannelHoldsNothing ==
    \A ch \in ChannelIds :
        channels[ch].ws = "closed" =>
            /\ channels[ch].stt \notin {"connecting", "open"}
            /\ channels[ch].timer # "running"
            /\ \A b \in BotIdSet : registered[b] # ch

\* C19: when the lookup of a channel is answered for a bot id that has a Session in
\* activeSessions, the channel is closed, gets no Session, and the entry is unchanged.
C19_SecondChannelRejected ==
    [][\A ch \in ChannelIds :
          (LookupAnswered(ch) /\ channels[ch].announced \in BotIdSet
              /\ registered[channels[ch].announced] # 0)
          => /\ registered' = registered
             /\ channels'[ch].session = NoSession
             /\ channels'[ch].ws \in {"closing", "closed"}]_vars

\* C20: the answer to the lookup of a bot id no meeting has closes the channel (its close
\* event is then due) and creates nothing; a channel that announced such a bot id never
\* has a Session, a speech-to-text connection or a summary interval, and activeSessions
\* has no entry of its own.
C20_UnknownBotClosesChannel ==
    /\ [][\A ch \in ChannelIds :
            (LookupAnswered(ch) /\ FindByBot(channels[ch].announced) = {})
            => /\ channels'[ch].ws \in {"closing", "closed"}
               /\ activeSessions' = activeSessions /\ registered' = registered]_vars
    /\ [](\A ch \in ChannelIds :
            (channels[ch].announced # NoBot /\ FindByBot(channels[ch].announced) = {})
            => /\ channels[ch].session = NoSession
               /\ channels[ch].stt = "none" /\ channels[ch].timer = "none"
               /\ \A b \in BotIdSet : registered[b] # ch
               /\ channels[ch].pending \/ channels[ch].ws \in {"closing", "closed"}
               /\ channels[ch].ws = "closing" => ENABLED WsClose(ch))

\* C20 witness: a channel that announced an unknown bot id was closed by the server and
\* its close event has been handled, while another channel has its Session.
C20_Witness ==
    \E ch, d \in ChannelIds :
        /\ channels[ch].announced = UnknownBot /\ channels[ch].ws = "closed"
        /\ channels[ch].session = NoSession
        /\ channels[d].session # NoSession /\ channels[d].ws = "open"

\* C21: the readiness acknowledgment of a channel is sent only once the channel's Session
\* is registered, so never for a metadata message that resolves to no meeting
C21_AckAfterSession ==
    [][\A ch \in ChannelIds :
          ~channels[ch].acked /\ channels'[ch].acked
              => /\ channels'[ch].session # NoSession
                 /\ registered'[channels'[ch].session.botId] = ch]_vars

\* the step is the receipt of a binary frame on channel ch
FrameReceived(ch) == channels'[ch].frames = channels[ch].frames + 1

\* the frame received by the step is handed to the speech-to-text connection
FrameForwarded(ch) ==
    channels'[ch].forwarded = Append(channels[ch].forwarded, channels'[ch].frames)

\* C22: a binary frame is forwarded exactly when, at its receipt, its channel has a
\* Session whose speech-to-text connection is open; no other step forwards anything (a
\* frame that was not forwarded is not kept for later); the frames forwarded are in the
\* order of their arrival.
C22_FrameForwardedIffOpen ==
    /\ [][\A ch \in ChannelIds :
            IF FrameReceived(ch)
            THEN IF channels[ch].session # NoSession /\ channels[ch].stt = "open"
                 THEN FrameForwarded(ch)
                 ELSE channels'[ch].forwarded = channels[ch].forwarded
            ELSE channels'[ch].forwarded = channels[ch].forwarded]_vars
    /\ [](\A ch \in ChannelIds : \A j, k \in DOMAIN channels[ch].forwarded :
            j < k => channels[ch].forwarded[j] < channels[ch].forwarded[k])

\* C22 witness: a channel dropped its first frame, received while its speech-to-text
\* connection was not open yet, and forwarded its second frame only.
C22_Witness ==
    \E ch \in ChannelIds :
        /\ channels[ch].frames = MaxFrames
        /\ channels[ch].session # NoSession /\ channels[ch].stt = "open"
        /\ channels[ch].forwarded = <<MaxFrames>>

\* C35: every audio channel has at most one running summary interval and one
\* speech-to-text connection in use, and a closed channel has none, whatever the number of
\* metadata messages with a bot id it received
C35_OneTimerOneConnection ==
    \A ch \in ChannelIds :
        /\ channels[ch].leaked = 0
        /\ channels[ch].ws = "closed" =>
              /\ channels[ch].timer # "running"
              /\ channels[ch].stt \notin {"connecting", "open"}

\* C39: the close of a channel leaves in activeSessions every Session that another
\* channel registered, also one under the bot id of the Session of the closing channel
C39_CloseRemovesOwnSessionOnly ==
    [][\A ch \in ChannelIds :
          ChannelCloses(ch) =>
              \A b \in BotIdSet :
                  (registered[b] # 0 /\ registered[b] # ch) =>
                      /\ registered'[b] = registered[b]
                      /\ activeSessions'[b] = activeSessions[b]]_vars

----------------------------------------------------------------------------
(* Properties of the Summarization Scheduler *)

\* C15: whatever periodic runs took place, with titles repeated within a run or across
\* runs and with runs overlapping, a meeting has at most one action item of a given title
C15_OneItemPerTitle ==
    \A m \in Meetings : \A j, k \in DOMAIN actionItems[m] :
        j # k => actionItems[m][j] # actionItems[m][k]

\* a step that starts a periodic run for meeting m
RunStarts(m) == ticks' # ticks /\ runs'[Len(runs')].meetingId = m

\* C16: once the stop command of a meeting has returned (its status is then 'processing'
\* or, after processMeeting, 'completed'), no periodic run starts for the meeting
C16_NoRunAfterStop ==
    [][\A m \in Meetings :
          meeting[m].status \in {"processing", "completed"} => ~RunStarts(m)]_vars

\* C17: once a meeting is 'completed' with its final summary stored, no step of a
\* periodic run replaces the stored summary
C17_FinalSummaryKept ==
    [][\A m \in Meetings :
          meeting[m].status = "completed" /\ meeting[m].summary = "final"
              => meeting'[m].summary = "final"]_vars

\* the step is the last of a periodic run of meeting m, the one that stores its summary
RunStores(m) ==
    \E i \in DOMAIN runs :
        runs[i].meetingId = m /\ runs[i].pc = "update" /\ runs' = RemoveAt(runs, i)

\* C26: the summary stored as a meeting's current summary, by a periodic run or by final
\* processing, is the last entry of the meeting's summary history, and every periodic run
\* that stores its summary makes the history one entry longer
C26_SummaryIsLastOfHistory ==
    /\ [](\A m \in Meetings :
            meeting[m].summary # NULL =>
                /\ summaryHistory[m] # <<>>
                /\ summaryHistory[m][Len(summaryHistory[m])] = meeting[m].summary)
    /\ [][\A m \in Meetings :
            RunStores(m) => Len(summaryHistory'[m]) = Len(summaryHistory[m]) + 1]_vars

\* the step is a step of the periodic run r
RunSteps(r) == \A k \in DOMAIN runs' : runs'[k] # r

\* C27: a periodic run whose findMany finds no fragment ends with that step: it never
\* requests a summary, and the step stores no summary, no history entry and no action item
\* and publishes nothing
C27_EmptyTranscriptRunDoesNothing ==
    [][\A i \in DOMAIN runs :
          (runs[i].pc = "findMany" /\ transcripts[runs[i].meetingId] = <<>> /\ RunSteps(runs[i]))
          => /\ \A k \in DOMAIN runs' : runs'[k].id # runs[i].id
             /\ meeting' = meeting
             /\ summaryHistory' = summaryHistory
             /\ actionItems' = actionItems
             /\ published' = [m \in Meetings |-> <<>>]]_vars

\* C27 witness: every periodic run has come and gone while the meeting, still recording,
\* had no fragment, and nothing is stored
C27_Witness ==
    /\ ticks = MaxRuns /\ runs = <<>>
    /\ \A m \in Meetings :
          /\ transcripts[m] = <<>> /\ meeting[m].status = "recording"
          /\ meeting[m].summary = NULL /\ summaryHistory[m] = <<>> /\ actionItems[m] = <<>>

\* the step is the one of run i of the final processing of meeting m, from position pc
ProcSteps(m, i, pc) ==
    /\ i \in DOMAIN procRuns[m]
    /\ procRuns[m][i].pc = pc
    /\ \/ procRuns'[m] = RemoveAt(procRuns[m], i)
       \/ /\ Len(procRuns'[m]) = Len(procRuns[m])
          /\ procRuns'[m][i] # procRuns[m][i]

C38_FailedSummaryKeepsCurrent ==
    [][\A m \in Meetings : \A i \in 1..(MaxInputs + 1) :
          (/\ ProcSteps(m, i, "update")
           /\ procRuns[m][i].called /\ procRuns[m][i].finalSummary = NULL)
          => /\ meeting'[m].status = "completed"
             /\ meeting'[m].summary = meeting[m].summary]_vars

====
